---- MODULE Spec2Model ----
(***************************************************************************)
(* Model of the docscalpel post-detection pipeline: configuration          *)
(* construction, extract_elements (validate, load, detect, geometric       *)
(* merge, cross-kind dedup, caption parsing, gap filling, association,     *)
(* numbering, sorting, cropping) and its helper functions.                 *)
(*                                                                         *)
(* emitted is a history variable: the confidences the detectors reported. *)
(*                                                                         *)
(* Numbers: coordinates are page-space points (integers); confidences and  *)
(* IoU thresholds are in tenths (0.5 is 5); an IoU value is the fraction   *)
(* num/den and is compared by cross-multiplication.                        *)
(***************************************************************************)
EXTENDS Integers, Sequences, FiniteSets, TLC

VARIABLES pc, config, pdf, outdir, pages, cur, all_elements,
          all_caption_bboxes, all_captions, caption_associations,
          warnings, raised, cropped, written, result, next_id, arg, emitted

vars == <<pc, config, pdf, outdir, pages, cur, all_elements,
          all_caption_bboxes, all_captions, caption_associations,
          warnings, raised, cropped, written, result, next_id, arg, emitted>>

(***************************************************************************)
(* Bounds of the model                                                     *)
(***************************************************************************)
MaxPages == 2
MaxElems == 2
MaxCaps == 1
MaxNum == 2
\* bits of the significand of the floats of the geometry kernel
MantissaBits == 4

(***************************************************************************)
(* Generic helpers                                                         *)
(***************************************************************************)
\* Optional[int] = None is the integer -1 (no valid value is negative)
None == -1

Max2(a, b) == IF a >= b THEN a ELSE b
Min2(a, b) == IF a <= b THEN a ELSE b

SetMax(S) == CHOOSE m \in S : \A n \in S : n <= m
SetMin(S) == CHOOSE m \in S : \A n \in S : m <= n

Range(s) == {s[i] : i \in 1..Len(s)}

SelectIdx(s, Test(_)) ==
  LET keep == {i \in 1..Len(s) : Test(s[i])}
      nth(k) == CHOOSE i \in keep : Cardinality({j \in keep : j < i}) = k - 1
  IN [k \in 1..Cardinality(keep) |-> s[nth(k)]]

\* Python's sorted()/list.sort(): a stable sort under the strict order Less
StableSort(s, Less(_, _)) ==
  LET n == Len(s)
      rank(i) == Cardinality({j \in 1..n :
                    Less(s[j], s[i]) \/ (~Less(s[i], s[j]) /\ j < i)})
  IN [k \in 1..n |-> s[CHOOSE i \in 1..n : rank(i) = k - 1]]

\* sequences over S of length at most n
SeqsUpTo(S, n) == UNION {[1..k -> S] : k \in 0..n}

(***************************************************************************)
(* models.py: ElementType, BoundingBox, Element                            *)
(***************************************************************************)
FIGURE == "figure"
TABLE == "table"
EQUATION == "equation"
ElementType == {FIGURE, TABLE, EQUATION}

BoundingBox(x, y, width, height, page_number, padding) ==
  [x |-> x, y |-> y, width |-> width, height |-> height,
   page_number |-> page_number, padding |-> padding]

\* BoundingBox.__post_init__ accepts the box
BoundingBoxValid(b) ==
  /\ b.x >= 0 /\ b.y >= 0
  /\ b.width > 0 /\ b.height > 0
  /\ b.page_number >= 1
  /\ b.padding >= 0

x2(b) == b.x + b.width
y2(b) == b.y + b.height
area(b) == b.width * b.height

\* Element.__post_init__ accepts the element
ElementValid(e) ==
  /\ e.element_type \in ElementType
  /\ 0 <= e.confidence_score /\ e.confidence_score <= 10
  /\ e.sequence_number >= 1
  /\ e.page_number >= 1

\* create_element: the caller supplies the fresh uuid4 as id
create_element(id, element_type, bounding_box, page_number, sequence_number, confidence_score, output_filename) ==
  [element_id |-> id, element_type |-> element_type,
   bounding_box |-> bounding_box, page_number |-> page_number,
   sequence_number |-> sequence_number,
   confidence_score |-> confidence_score,
   output_filename |-> output_filename]

(***************************************************************************)
(* Naming patterns and str.format                                          *)
(* A pattern is a sequence of tokens; "{" and "}" are the brace            *)
(* characters, every other token is a run of ordinary characters.          *)
(***************************************************************************)
PatDefault == <<"{", "type", "}", "_", "{", "counter", ":02d", "}", ".pdf">>
PatNoType == <<"img", "_", "{", "counter", "}", ".pdf">>
PatNoCounter == <<"{", "type", "}", ".pdf">>
PatEscapedType == <<"{", "{", "type", "}", "}", "_", "{", "counter", "}", ".pdf">>
PatCounterPrefix == <<"{", "type", "}", "_", "{", "counter", "s", "}", ".pdf">>
Patterns == {PatDefault, PatNoType, PatNoCounter, PatEscapedType,
             PatCounterPrefix}

\* Python's "needle in pattern" on strings
Contains(p, needle) ==
  \E i \in 0..(Len(p) - Len(needle)) :
     \A k \in 1..Len(needle) : p[i + k] = needle[k]

DigitChar == <<"0", "1", "2", "3", "4", "5", "6", "7", "8", "9">>

RECURSIVE Digits(_)
\* str(n) of a non-negative integer, as a sequence of digit characters
Digits(n) == IF n < 10 THEN <<DigitChar[n + 1]>>
             ELSE Digits(n \div 10) \o <<DigitChar[(n % 10) + 1]>>

\* format(n, "02d"): zero-padded to width 2
Digits02(n) == IF n < 10 THEN <<"0">> \o Digits(n) ELSE Digits(n)

KeyError == <<"KeyError">>
ValueError == <<"ValueError">>

\* index of the first "}" at or after position i, or 0
CloseAt(p, i) ==
  IF \E j \in i..Len(p) : p[j] = "}"
  THEN CHOOSE j \in i..Len(p) : p[j] = "}" /\ \A k \in i..(j - 1) : p[k] # "}"
  ELSE 0

\* the replacement of the field whose text is p[i+1..j-1]
FieldValue(field, type, counter) ==
  IF field = <<"type">> THEN <<type>>
  ELSE IF field = <<"counter">> THEN Digits(counter)
  ELSE IF field = <<"counter", ":02d">> THEN Digits02(counter)
  ELSE KeyError

RECURSIVE FormatFrom(_, _, _, _)
\* naming_pattern.format(type=..., counter=...) from position i on;
\* the result is the text, or KeyError / ValueError when format raises
FormatFrom(p, i, type, counter) ==
  IF i > Len(p) THEN << >>
  ELSE IF p[i] = "{" /\ i < Len(p) /\ p[i + 1] = "{"
    THEN LET rest == FormatFrom(p, i + 2, type, counter)
         IN IF rest \in {KeyError, ValueError} THEN rest ELSE <<"{">> \o rest
  ELSE IF p[i] = "}" /\ i < Len(p) /\ p[i + 1] = "}"
    THEN LET rest == FormatFrom(p, i + 2, type, counter)
         IN IF rest \in {KeyError, ValueError} THEN rest ELSE <<"}">> \o rest
  ELSE IF p[i] = "}" THEN ValueError
  ELSE IF p[i] = "{"
    THEN LET j == CloseAt(p, i + 1)
         IN IF j = 0 THEN ValueError
            ELSE LET val == FieldValue(SubSeq(p, i + 1, j - 1), type, counter)
                     rest == FormatFrom(p, j + 1, type, counter)
                 IN IF val = KeyError THEN KeyError
                    ELSE IF rest \in {KeyError, ValueError} THEN rest
                    ELSE val \o rest
  ELSE LET rest == FormatFrom(p, i + 1, type, counter)
       IN IF rest \in {KeyError, ValueError} THEN rest ELSE <<p[i]>> \o rest

Format(p, type, counter) == FormatFrom(p, 1, type, counter)

FormatRaises(p, type, counter) == Format(p, type, counter) \in {KeyError, ValueError}

(***************************************************************************)
(* models.py: ExtractionConfig.__post_init__                               *)
(***************************************************************************)
\* the ConfigurationError message raised by __post_init__, or "ok"
PostInit(c) ==
  IF c.element_types = << >> THEN "element_types must not be empty"
  ELSE IF ~Contains(c.naming_pattern, <<"{", "type", "}">>)
          \/ ~Contains(c.naming_pattern, <<"{", "counter">>)
    THEN "naming_pattern must contain {type} and {counter} placeholders"
  ELSE IF c.boundary_padding < 0 THEN "boundary_padding must be non-negative"
  ELSE IF ~(0 <= c.confidence_threshold /\ c.confidence_threshold <= 10)
    THEN "confidence_threshold must be between 0.0 and 1.0"
  ELSE IF c.max_pages # None /\ c.max_pages < 1 THEN "max_pages must be >= 1"
  ELSE "ok"

(***************************************************************************)
(* figure_merger.py: geometry kernel and FigureMerger                      *)
(***************************************************************************)
IntersectionArea(bbox1, bbox2) ==
  LET x_left == Max2(bbox1.x, bbox2.x)
      y_top == Max2(bbox1.y, bbox2.y)
      x_right == Min2(x2(bbox1), x2(bbox2))
      y_bottom == Min2(y2(bbox1), y2(bbox2))
  IN IF x_right < x_left \/ y_bottom < y_top THEN -1
     ELSE (x_right - x_left) * (y_bottom - y_top)

\* FigureMerger._calculate_iou: the fraction num/den
calculate_iou(bbox1, bbox2) ==
  LET inter == IntersectionArea(bbox1, bbox2)
      union_area == area(bbox1) + area(bbox2) - inter
  IN IF inter < 0 THEN [num |-> 0, den |-> 1]
     ELSE IF union_area > 0 THEN [num |-> inter, den |-> union_area]
     ELSE [num |-> 0, den |-> 1]

\* iou >= t/10
IouAtLeast(iou, t) == 10 * iou.num >= t * iou.den

\* FigureMerger._calculate_min_distance
calculate_min_distance(bbox1, bbox2) ==
  LET h_distance == IF x2(bbox1) < bbox2.x THEN bbox2.x - x2(bbox1)
                    ELSE IF x2(bbox2) < bbox1.x THEN bbox1.x - x2(bbox2)
                    ELSE 0
      v_distance == IF y2(bbox1) < bbox2.y THEN bbox2.y - y2(bbox1)
                    ELSE IF y2(bbox2) < bbox1.y THEN bbox1.y - y2(bbox2)
                    ELSE 0
  IN IF h_distance = 0 /\ v_distance = 0 THEN 0
     ELSE IF h_distance = 0 THEN v_distance
     ELSE IF v_distance = 0 THEN h_distance
     ELSE Min2(h_distance, v_distance)

\* The coordinates of a BoundingBox are Python floats. Above they are whole
\* points, on which every operation of the kernel but the final division
\* is exact. Below the same code is computed in binary floating point with
\* round-to-nearest-even and a significand of MantissaBits bits; a value is
\* held as an integer number of units.
RECURSIVE Pow2(_)
Pow2(n) == IF n = 0 THEN 1 ELSE 2 * Pow2(n - 1)

\* the number of low bits of v that do not fit the significand
Exponent(v) ==
  CHOOSE e \in 0..(4 * MantissaBits + 2) :
     /\ v < Pow2(MantissaBits + e)
     /\ e = 0 \/ v >= Pow2(MantissaBits + e - 1)

\* v without its e low bits, rounded to nearest, ties to even; sticky says
\* that the exact value has further nonzero bits below those of v
RoundAt(v, e, sticky) ==
  IF e = 0 THEN v
  ELSE LET q == v \div Pow2(e)
           rem == v % Pow2(e)
           half == Pow2(e - 1)
           up == rem > half \/ (rem = half /\ (sticky \/ q % 2 = 1))
       IN (IF up THEN q + 1 ELSE q) * Pow2(e)

\* the float nearest to the exact result v of +, - or *
Fl(v) ==
  IF v < 0 THEN 0 - RoundAt(0 - v, Exponent(0 - v), FALSE)
  ELSE RoundAt(v, Exponent(v), FALSE)

\* quotients are held in units of 1/Pow2(DivScale)
DivScale == 3 * MantissaBits + 1
FloatOne == Pow2(DivScale)

\* the float nearest to n / d (n >= 0, d > 0)
FlDiv(n, d) ==
  LET q == (n * FloatOne) \div d
      r == (n * FloatOne) % d
  IN RoundAt(q, Exponent(q), r # 0)

\* BoundingBox.x2, .y2, .area on floats
x2_float(b) == Fl(b.x + b.width)
y2_float(b) == Fl(b.y + b.height)
area_float(b) == Fl(b.width * b.height)

\* FigureMerger._calculate_iou on floats
calculate_iou_float(bbox1, bbox2) ==
  LET x_left == Max2(bbox1.x, bbox2.x)
      y_top == Max2(bbox1.y, bbox2.y)
      x_right == Min2(x2_float(bbox1), x2_float(bbox2))
      y_bottom == Min2(y2_float(bbox1), y2_float(bbox2))
      intersection_area == Fl(Fl(x_right - x_left) * Fl(y_bottom - y_top))
      union_area == Fl(Fl(area_float(bbox1) + area_float(bbox2))
                         - intersection_area)
  IN IF x_right < x_left \/ y_bottom < y_top THEN 0
     ELSE IF union_area > 0 THEN FlDiv(intersection_area, union_area)
     ELSE 0

\* FigureMerger._calculate_min_distance on floats
calculate_min_distance_float(bbox1, bbox2) ==
  LET h_distance == IF x2_float(bbox1) < bbox2.x
                    THEN Fl(bbox2.x - x2_float(bbox1))
                    ELSE IF x2_float(bbox2) < bbox1.x
                    THEN Fl(bbox1.x - x2_float(bbox2))
                    ELSE 0
      v_distance == IF y2_float(bbox1) < bbox2.y
                    THEN Fl(bbox2.y - y2_float(bbox1))
                    ELSE IF y2_float(bbox2) < bbox1.y
                    THEN Fl(bbox1.y - y2_float(bbox2))
                    ELSE 0
  IN IF h_distance = 0 /\ v_distance = 0 THEN 0
     ELSE IF h_distance = 0 THEN v_distance
     ELSE IF v_distance = 0 THEN h_distance
     ELSE Min2(h_distance, v_distance)

\* FigureMerger(overlap_threshold=0.3, proximity_threshold=20.0)
overlap_threshold == 3
proximity_threshold == 20

\* variant: only overlapping boxes are merged, close ones are not
should_merge_overlap_only(elem1, elem2) ==
  IouAtLeast(calculate_iou(elem1.bounding_box, elem2.bounding_box),
             overlap_threshold)

\* FigureMerger._should_merge
should_merge(elem1, elem2) ==
  \/ IouAtLeast(calculate_iou(elem1.bounding_box, elem2.bounding_box),
                overlap_threshold)
  \/ calculate_min_distance(elem1.bounding_box, elem2.bounding_box)
        <= proximity_threshold

\* variant: the merged confidence is the middle of the group's range
create_merged_element_mid(elements) ==
  LET idx == 1..Len(elements)
      min_x == SetMin({elements[i].bounding_box.x : i \in idx})
      min_y == SetMin({elements[i].bounding_box.y : i \in idx})
      max_x == SetMax({x2(elements[i].bounding_box) : i \in idx})
      max_y == SetMax({y2(elements[i].bounding_box) : i \in idx})
      merged_bbox == BoundingBox(min_x, min_y, max_x - min_x, max_y - min_y,
                                 elements[1].page_number,
                                 elements[1].bounding_box.padding)
      max_confidence == (SetMin({elements[i].confidence_score : i \in idx})
                         + SetMax({elements[i].confidence_score : i \in idx})) \div 2
  IN [elements[1] EXCEPT !.bounding_box = merged_bbox,
                         !.confidence_score = max_confidence]

\* FigureMerger._create_merged_element (elements is non-empty)
create_merged_element(elements) ==
  LET idx == 1..Len(elements)
      min_x == SetMin({elements[i].bounding_box.x : i \in idx})
      min_y == SetMin({elements[i].bounding_box.y : i \in idx})
      max_x == SetMax({x2(elements[i].bounding_box) : i \in idx})
      max_y == SetMax({y2(elements[i].bounding_box) : i \in idx})
      merged_bbox == BoundingBox(min_x, min_y, max_x - min_x, max_y - min_y,
                                 elements[1].page_number,
                                 elements[1].bounding_box.padding)
      max_confidence == SetMax({elements[i].confidence_score : i \in idx})
  IN [elements[1] EXCEPT !.bounding_box = merged_bbox,
                         !.confidence_score = max_confidence]

ConfGreater(a, b) == a.confidence_score > b.confidence_score

RECURSIVE MergeFrom(_, _, _)
\* the loop of _merge_group over the confidence-sorted list, from index i
MergeFrom(sorted_elements, i, used) ==
  IF i > Len(sorted_elements) THEN << >>
  ELSE IF i \in used THEN MergeFrom(sorted_elements, i + 1, used)
  ELSE LET elem1 == sorted_elements[i]
           absorbed == {j \in (i + 1)..Len(sorted_elements) :
                          j \notin used /\ should_merge(elem1, sorted_elements[j])}
           to_merge == SelectIdx([j \in 1..Len(sorted_elements) |->
                                    [at |-> j, e |-> sorted_elements[j]]],
                                 LAMBDA r : r.at = i \/ r.at \in absorbed)
           members == [k \in 1..Len(to_merge) |-> to_merge[k].e]
           merged_elem == IF Len(members) > 1 THEN create_merged_element(members)
                          ELSE elem1
       IN <<merged_elem>>
            \o MergeFrom(sorted_elements, i + 1, used \cup {i} \cup absorbed)

\* FigureMerger._merge_group
merge_group(elements) ==
  IF Len(elements) <= 1 THEN elements
  ELSE MergeFrom(StableSort(elements, ConfGreater), 1, {})

RECURSIVE Concat(_)
Concat(seqs) == IF seqs = << >> THEN << >> ELSE Head(seqs) \o Concat(Tail(seqs))

\* the keys of a dict filled in list order, in insertion order
KeysInOrder(s, Key(_)) ==
  LET first == {i \in 1..Len(s) : \A j \in 1..(i - 1) : Key(s[j]) # Key(s[i])}
      nth(k) == CHOOSE i \in first : Cardinality({j \in first : j < i}) = k - 1
  IN [k \in 1..Cardinality(first) |-> Key(s[nth(k)])]

PageTypeKey(e) == <<e.page_number, e.element_type>>

RECURSIVE ClustersFrom(_, _, _)
\* the to_merge lists of the loop of _merge_group, in the order in which
\* the loop builds them
ClustersFrom(sorted_elements, i, used) ==
  IF i > Len(sorted_elements) THEN << >>
  ELSE IF i \in used THEN ClustersFrom(sorted_elements, i + 1, used)
  ELSE LET absorbed == {j \in (i + 1)..Len(sorted_elements) :
                          /\ j \notin used
                          /\ should_merge(sorted_elements[i], sorted_elements[j])}
           to_merge == SelectIdx([j \in 1..Len(sorted_elements) |->
                                    [at |-> j, e |-> sorted_elements[j]]],
                                 LAMBDA r : r.at = i \/ r.at \in absorbed)
       IN <<[k \in 1..Len(to_merge) |-> to_merge[k].e]>>
            \o ClustersFrom(sorted_elements, i + 1, used \cup {i} \cup absorbed)

\* the to_merge lists of one merge_elements call, group after group
merge_clusters(elements) ==
  LET keys == KeysInOrder(elements, PageTypeKey)
      group(k) == SelectIdx(elements, LAMBDA e : PageTypeKey(e) = keys[k])
  IN Concat([k \in 1..Len(keys) |->
               IF Len(group(k)) <= 1 THEN <<group(k)>>
               ELSE ClustersFrom(StableSort(group(k), ConfGreater), 1, {})])

\* variant: the groups are formed by kind alone, across pages
merge_elements_anypage(elements) ==
  IF elements = << >> THEN elements
  ELSE LET keys == KeysInOrder(elements, LAMBDA e : e.element_type)
       IN Concat([k \in 1..Len(keys) |->
                    merge_group(SelectIdx(elements,
                                  LAMBDA e : e.element_type = keys[k]))])

\* FigureMerger.merge_elements
merge_elements(elements) ==
  IF elements = << >> THEN elements
  ELSE LET keys == KeysInOrder(elements, PageTypeKey)
       IN Concat([k \in 1..Len(keys) |->
                    merge_group(SelectIdx(elements,
                                  LAMBDA e : PageTypeKey(e) = keys[k]))])

(***************************************************************************)
(* extractor.py: _elements_overlap, _handle_overlaps                       *)
(***************************************************************************)
\* variant: the pages of the two elements are not compared
elements_overlap_anypage(elem1, elem2, threshold) ==
  IF FALSE THEN FALSE
  ELSE LET inter == IntersectionArea(elem1.bounding_box, elem2.bounding_box)
           union_area == area(elem1.bounding_box) + area(elem2.bounding_box) - inter
       IN IF inter < 0 THEN FALSE
          ELSE IF union_area > 0 THEN 10 * inter >= threshold * union_area
          ELSE 0 >= threshold

\* _elements_overlap(elem1, elem2, threshold), threshold in tenths
elements_overlap(elem1, elem2, threshold) ==
  IF elem1.page_number # elem2.page_number THEN FALSE
  ELSE LET inter == IntersectionArea(elem1.bounding_box, elem2.bounding_box)
           union_area == area(elem1.bounding_box) + area(elem2.bounding_box) - inter
       IN IF inter < 0 THEN FALSE
          ELSE IF union_area > 0 THEN 10 * inter >= threshold * union_area
          ELSE 0 >= threshold

\* default of _handle_overlaps(overlap_threshold=0.5)
dedup_threshold == 5

OverlapWarning(element, kept) ==
  [msg |-> "Removed overlapping", removed_type |-> element.element_type,
   removed_confidence |-> element.confidence_score,
   kept_type |-> kept.element_type, kept_confidence |-> kept.confidence_score,
   page |-> element.page_number]

RECURSIVE OverlapLoop(_, _, _, _)
\* the loop of _handle_overlaps over the confidence-sorted list, from index i
OverlapLoop(sorted_elements, i, kept_elements, warns) ==
  IF i > Len(sorted_elements)
  THEN [elements |-> kept_elements, warnings |-> warns]
  ELSE LET element == sorted_elements[i]
           hits == {k \in 1..Len(kept_elements) :
                      elements_overlap(element, kept_elements[k], dedup_threshold)}
       IN IF hits = {}
          THEN OverlapLoop(sorted_elements, i + 1,
                           Append(kept_elements, element), warns)
          ELSE OverlapLoop(sorted_elements, i + 1, kept_elements,
                           Append(warns,
                                  OverlapWarning(element, kept_elements[SetMin(hits)])))

\* _handle_overlaps: [elements, warnings]
handle_overlaps(elements) ==
  IF Len(elements) <= 1 THEN [elements |-> elements, warnings |-> << >>]
  ELSE OverlapLoop(StableSort(elements, ConfGreater), 1, << >>, << >>)

(***************************************************************************)
(* extractor.py: _assign_sequence_numbers_and_filenames, _sort_elements    *)
(***************************************************************************)
\* key=lambda e: (e.page_number, e.bounding_box.y, e.bounding_box.x)
PositionLess(a, b) ==
  \/ a.page_number < b.page_number
  \/ /\ a.page_number = b.page_number
     /\ \/ a.bounding_box.y < b.bounding_box.y
        \/ /\ a.bounding_box.y = b.bounding_box.y
           /\ a.bounding_box.x < b.bounding_box.x

\* variant: the list is left in numbering order
sort_elements_unsorted(elements) == elements

\* _sort_elements
sort_elements(elements) == StableSort(elements, PositionLess)

TypeKey(e) == e.element_type

\* the ascending sequence of a finite set of integers
SortedSeq(S) ==
  [k \in 1..Cardinality(S) |->
     CHOOSE n \in S : Cardinality({m \in S : m < n}) = k - 1]

\* does the association map give the element a caption with a number
HasCaptionNumber(e, assoc) ==
  /\ e.element_id \in DOMAIN assoc
  /\ assoc[e.element_id].parsed_number # None

\* variant: elements without a caption number are counted from 1
NumberGroup_restart(type_elements, assoc) ==
  LET sorted_t == StableSort(type_elements, PositionLess)
      with == {i \in 1..Len(sorted_t) : HasCaptionNumber(sorted_t[i], assoc)}
      num(i) == assoc[sorted_t[i].element_id].parsed_number
      nums == {num(i) : i \in with}
      \* elements_with_caption_numbers[n]: the last element stored under n
      holder(n) == sorted_t[SetMax({i \in with : num(i) = n})]
      by_number == SortedSeq(nums)
      without == SelectIdx(sorted_t, LAMBDA e : ~HasCaptionNumber(e, assoc))
  IN IF nums # {}
     THEN [k \in 1..Len(by_number) |->
             [e |-> holder(by_number[k]), counter |-> by_number[k]]]
          \o [k \in 1..Len(without) |->
                [e |-> without[k], counter |-> k]]
     ELSE [k \in 1..Len(sorted_t) |-> [e |-> sorted_t[k], counter |-> k]]

\* the numbering of one kind: the (element, counter) pairs in output order
NumberGroup(type_elements, assoc) ==
  LET sorted_t == StableSort(type_elements, PositionLess)
      with == {i \in 1..Len(sorted_t) : HasCaptionNumber(sorted_t[i], assoc)}
      num(i) == assoc[sorted_t[i].element_id].parsed_number
      nums == {num(i) : i \in with}
      \* elements_with_caption_numbers[n]: the last element stored under n
      holder(n) == sorted_t[SetMax({i \in with : num(i) = n})]
      by_number == SortedSeq(nums)
      without == SelectIdx(sorted_t, LAMBDA e : ~HasCaptionNumber(e, assoc))
  IN IF nums # {}
     THEN [k \in 1..Len(by_number) |->
             [e |-> holder(by_number[k]), counter |-> by_number[k]]]
          \o [k \in 1..Len(without) |->
                [e |-> without[k], counter |-> SetMax(nums) + k]]
     ELSE [k \in 1..Len(sorted_t) |-> [e |-> sorted_t[k], counter |-> k]]

\* _assign_sequence_numbers_and_filenames; base is the number of uuids
\* drawn so far. The result is [raised, elements]: raised names the
\* exception of str.format or of Element.__post_init__, or is "none".
assign_sequence_numbers_and_filenames(elements, naming_pattern, assoc, base) ==
  LET types == KeysInOrder(elements, TypeKey)
      plan == Concat([t \in 1..Len(types) |->
                NumberGroup(SelectIdx(elements,
                              LAMBDA e : e.element_type = types[t]), assoc)])
      fname(k) == Format(naming_pattern, plan[k].e.element_type, plan[k].counter)
      bad == {k \in 1..Len(plan) :
                fname(k) \in {KeyError, ValueError} \/ plan[k].counter < 1}
      first_bad == SetMin(bad)
  IN IF bad # {}
     THEN [raised |-> IF fname(first_bad) = KeyError THEN "KeyError"
                      ELSE "ValueError",
           elements |-> << >>]
     ELSE [raised |-> "none",
           elements |-> [k \in 1..Len(plan) |->
              create_element(base + k, plan[k].e.element_type,
                             plan[k].e.bounding_box, plan[k].e.page_number,
                             plan[k].counter, plan[k].e.confidence_score,
                             fname(k))]]

(***************************************************************************)
(* Page text (the PyMuPDF collaborator): a page's text layer is a list of  *)
(* lines, each a box and a token sequence. Tokens: "Fig", "ure", "Table",  *)
(* "Eq", ".", ":", " ", digit runs, single letters and words.              *)
(***************************************************************************)
Line(x, y, width, height, tokens) ==
  [x |-> x, y |-> y, width |-> width, height |-> height, tokens |-> tokens]

IsSpace(t) == t \in {" ", "\n"}

RECURSIVE Strip(_)
\* str.strip()
Strip(text) ==
  IF text = << >> THEN text
  ELSE IF IsSpace(Head(text)) THEN Strip(Tail(text))
  ELSE IF IsSpace(text[Len(text)]) THEN Strip(SubSeq(text, 1, Len(text) - 1))
  ELSE text

RECURSIVE JoinLines(_)
JoinLines(lines) ==
  IF lines = << >> THEN << >>
  ELSE Head(lines).tokens \o <<"\n">> \o JoinLines(Tail(lines))

\* page.get_text("text", clip=rect): the lines lying inside the rectangle
get_text_clip(page_lines, rx0, ry0, rx1, ry1) ==
  JoinLines(SelectIdx(page_lines,
     LAMBDA l : /\ rx0 <= l.x /\ l.x + l.width <= rx1
                /\ ry0 <= l.y /\ l.y + l.height <= ry1))

\* page.get_text("text")
get_text(page_lines) == JoinLines(page_lines)

(***************************************************************************)
(* caption_parser.py: patterns and _parse_number                           *)
(***************************************************************************)
DigitRuns == {"0", "1", "2", "3", "4", "5", "6", "7"}
IntOf(t) == CHOOSE n \in 0..7 : Digits(n) = <<t>>
IsDigits(t) == t \in DigitRuns

\* ord(first letter, upper-cased) - ord('A') + 1 of the tokens that begin
\* with a letter
LetterTokens == {"A", "B", "b", "ure", "s", "see", "text", "Fig", "Table", "Eq"}
LetterOrd(t) ==
  CASE t = "A" -> 1 [] t \in {"B", "b"} -> 2 [] t = "ure" -> 21
    [] t \in {"s", "see"} -> 19 [] t \in {"text", "Table"} -> 20
    [] t = "Fig" -> 6 [] t = "Eq" -> 5

\* the positions right after a kind label that starts at i, in the order
\* the alternatives of (?:Figure|Fig\.?|...) are tried
LabelEnds(text, i, element_type) ==
  LET n == Len(text)
      tok(k) == IF k <= n THEN text[k] ELSE ""
  IN IF element_type = FIGURE
     THEN IF tok(i) # "Fig" THEN << >>
          ELSE (IF tok(i + 1) = "ure" THEN <<i + 2>> ELSE << >>)
               \o (IF tok(i + 1) = "." THEN <<i + 2>> ELSE << >>)
               \o <<i + 1>>
     ELSE IF element_type = TABLE
     THEN IF tok(i) = "Table" THEN <<i + 1>> ELSE << >>
     ELSE IF tok(i) # "Eq" THEN << >>
          ELSE (IF tok(i + 1) = "." THEN <<i + 2>> ELSE << >>) \o <<i + 1>>

RECURSIVE SkipSpaces(_, _)
SkipSpaces(text, k) ==
  IF k <= Len(text) /\ IsSpace(text[k]) THEN SkipSpaces(text, k + 1) ELSE k

\* group(1) of pattern number pat matched at position i, or "" (no match
\* there); pat 1 captures (\d+), pat 2 captures ([A-Z]) under IGNORECASE
MatchAt(text, i, element_type, pat) ==
  LET ends == LabelEnds(text, i, element_type)
      ok(e) == LET k == SkipSpaces(text, ends[e])
               IN /\ k <= Len(text)
                  /\ IF pat = 1 THEN IsDigits(text[k])
                     ELSE text[k] \in LetterTokens
      good == {e \in 1..Len(ends) : ok(e)}
  IN IF good = {} THEN ""
     ELSE text[SkipSpaces(text, ends[SetMin(good)])]

\* the number of patterns compiled for the kind
PatternCount(element_type) == IF element_type = EQUATION THEN 1 ELSE 2

\* pattern.search(text): group(1) of the leftmost match, or ""
Search(text, element_type, pat) ==
  LET hits == {i \in 1..Len(text) : MatchAt(text, i, element_type, pat) # ""}
  IN IF hits = {} THEN "" ELSE MatchAt(text, SetMin(hits), element_type, pat)

\* CaptionParser._parse_number
parse_number(text, element_type) ==
  LET g1 == Search(text, element_type, 1)
      g2 == IF PatternCount(element_type) >= 2
            THEN Search(text, element_type, 2) ELSE ""
  IN IF g1 # "" THEN IntOf(g1)
     ELSE IF g2 # "" THEN LetterOrd(g2)
     ELSE None

\* variant: the found numbers are kept in ascending order
FoundNumbers_ascending(text) ==
  LET hits == SelectIdx([i \in 1..Len(text) |-> i],
                        LAMBDA i : MatchAt(text, i, FIGURE, 1) # "")
  IN SortedSeq({IntOf(MatchAt(text, hits[k], FIGURE, 1)) : k \in 1..Len(hits)})

\* [int(m.group(1)) for m in pattern.finditer(text)] for the figure
\* patterns; int() of a letter capture raises ValueError and is skipped
FoundNumbers(text) ==
  LET hits == SelectIdx([i \in 1..Len(text) |-> i],
                        LAMBDA i : MatchAt(text, i, FIGURE, 1) # "")
  IN [k \in 1..Len(hits) |-> IntOf(MatchAt(text, hits[k], FIGURE, 1))]

Caption(text, bounding_box, page_number, element_type, parsed_number) ==
  [text |-> text, bounding_box |-> bounding_box, page_number |-> page_number,
   element_type |-> element_type, parsed_number |-> parsed_number]

\* the Caption built for one caption box, or << >> when its text is empty
CaptionOfBox(page_lines, page_number, bbox, element_type) ==
  LET text == Strip(get_text_clip(page_lines, bbox.x, bbox.y, x2(bbox), y2(bbox)))
      first == parse_number(text, element_type)
      expanded_text == Strip(get_text_clip(page_lines,
                          Max2(0, bbox.x - 50), Max2(0, bbox.y - 50),
                          x2(bbox) + 50, y2(bbox) + 50))
      second == parse_number(expanded_text, element_type)
  IN IF text = << >> THEN << >>
     ELSE IF first = None /\ element_type = FIGURE
       THEN <<Caption(IF second # None THEN expanded_text ELSE text,
                      bbox, page_number, element_type, second)>>
     ELSE <<Caption(text, bbox, page_number, element_type, first)>>

RECURSIVE AssignFound(_, _, _, _)
\* the page-wide fallback loop over the captions, from index i
AssignFound(captions, i, found_numbers, used_numbers) ==
  IF i > Len(captions) THEN captions
  ELSE IF ~(captions[i].parsed_number = None /\ captions[i].element_type = FIGURE)
    THEN AssignFound(captions, i + 1, found_numbers, used_numbers)
  ELSE LET free == {k \in 1..Len(found_numbers) :
                       found_numbers[k] \notin used_numbers}
       IN IF free = {}
          THEN AssignFound(captions, i + 1, found_numbers, used_numbers)
          ELSE LET num == found_numbers[SetMin(free)]
               IN AssignFound([captions EXCEPT ![i].parsed_number = num], i + 1,
                              found_numbers, used_numbers \cup {num})

\* the captions built from the first n caption boxes; caption_bboxes is a
\* list of [bbox, element_type]
ReadBoxes(page_lines, page_number, caption_bboxes, n) ==
  Concat([k \in 1..n |->
            CaptionOfBox(page_lines, page_number, caption_bboxes[k].bbox,
                         caption_bboxes[k].element_type)])

\* the page-wide fallback: the captions without a number take the numbers
\* found in the full page text that no caption has yet
AssignNumbers(captions, page_lines) ==
  AssignFound(captions, 1, FoundNumbers(get_text(page_lines)),
              {captions[k].parsed_number : k \in 1..Len(captions)} \ {None})

\* CaptionParser.extract_captions_from_page when text extraction works
extract_captions_from_page(page_lines, page_number, caption_bboxes) ==
  AssignNumbers(ReadBoxes(page_lines, page_number, caption_bboxes,
                          Len(caption_bboxes)), page_lines)

\* where the text extraction raises: never, in fitz.open, in the get_text
\* of the k-th caption box (k >= 1), or in the get_text of the whole page
FailNever == None
FailOpen == 0
FailFullPage == 100

\* the full-page search is needed: a figure caption has no number
NeedsFallback(captions) ==
  \E k \in 1..Len(captions) :
     captions[k].parsed_number = None /\ captions[k].element_type = FIGURE

\* the end of extract_captions_from_page once every box has been read
FallbackOrFail(captions, page_lines, fail_at) ==
  IF fail_at = FailFullPage /\ NeedsFallback(captions) THEN captions
  ELSE AssignNumbers(captions, page_lines)

\* variant: a failure anywhere discards the captions built so far
extract_captions_from_page_failing_allornothing(page_lines, page_number, caption_bboxes, fail_at) ==
  IF fail_at = FailOpen THEN << >>
  ELSE IF fail_at \in 1..Len(caption_bboxes) THEN << >>
  ELSE IF fail_at = FailFullPage
          /\ NeedsFallback(ReadBoxes(page_lines, page_number, caption_bboxes,
                                     Len(caption_bboxes)))
    THEN << >>
  ELSE FallbackOrFail(ReadBoxes(page_lines, page_number, caption_bboxes,
                                Len(caption_bboxes)), page_lines, fail_at)

\* CaptionParser.extract_captions_from_page with its try/except: the
\* exception is caught and the list built so far is returned
extract_captions_from_page_failing(page_lines, page_number, caption_bboxes, fail_at) ==
  IF fail_at = FailOpen THEN << >>
  ELSE IF fail_at \in 1..Len(caption_bboxes)
    THEN ReadBoxes(page_lines, page_number, caption_bboxes, fail_at - 1)
  ELSE FallbackOrFail(ReadBoxes(page_lines, page_number, caption_bboxes,
                                Len(caption_bboxes)), page_lines, fail_at)

(***************************************************************************)
(* caption_parser.py: associate_captions_with_elements                     *)
(***************************************************************************)
IsSynthetic(c) == c.bounding_box.width = 1 /\ c.bounding_box.height = 1

\* CaptionParser._is_caption_below
is_caption_below(element_bbox, caption_bbox) == y2(element_bbox) <= caption_bbox.y

\* CaptionParser._calculate_distance
calculate_distance(bbox1, bbox2) ==
  IF y2(bbox1) <= bbox2.y THEN bbox2.y - y2(bbox1)
  ELSE IF y2(bbox2) <= bbox1.y THEN bbox1.y - y2(bbox2)
  ELSE 0

YXLess(a, b) ==
  \/ a.bounding_box.y < b.bounding_box.y
  \/ a.bounding_box.y = b.bounding_box.y /\ a.bounding_box.x < b.bounding_box.x

NumberLess(c, d) == c.parsed_number < d.parsed_number

caption_penalty == 500

\* variant: a caption that is not below the element is not penalised
Score_nopenalty(element, caption) ==
  LET distance == calculate_distance(element.bounding_box, caption.bounding_box)
  IN IF is_caption_below(element.bounding_box, caption.bounding_box)
     THEN distance ELSE distance

\* the score of a candidate caption in the distance-based matching
Score(element, caption) ==
  LET distance == calculate_distance(element.bounding_box, caption.bounding_box)
  IN IF is_caption_below(element.bounding_box, caption.bounding_box)
     THEN distance ELSE distance + caption_penalty

\* variant: the captions of a group are taken in list order, unsorted
PositionMatches_listorder(elements, captions) ==
  LET numbered == SelectIdx(captions, LAMBDA c : c.parsed_number # None)
      group(e) == SelectIdx(elements, LAMBDA o : PageTypeKey(o) = PageTypeKey(e))
      caps(e) == SelectIdx(numbered,
                   LAMBDA c : <<c.page_number, c.element_type>> = PageTypeKey(e))
      dense == {i \in 1..Len(elements) :
                  Len(caps(elements[i])) > 1 /\ Len(group(elements[i])) > 1}
      pick(e) == LET sorted_elements == StableSort(group(e), YXLess)
                     sorted_captions == caps(e)
                     i == CHOOSE k \in 1..Len(sorted_elements) :
                             sorted_elements[k].element_id = e.element_id
                 IN sorted_captions[Min2(i, Len(sorted_captions))]
  IN [id \in {elements[i].element_id : i \in dense} |->
        pick(CHOOSE e \in Range(elements) : e.element_id = id)]

\* step 1: position-based matching on pages with several captions and elements
PositionMatches(elements, captions) ==
  LET numbered == SelectIdx(captions, LAMBDA c : c.parsed_number # None)
      group(e) == SelectIdx(elements, LAMBDA o : PageTypeKey(o) = PageTypeKey(e))
      caps(e) == SelectIdx(numbered,
                   LAMBDA c : <<c.page_number, c.element_type>> = PageTypeKey(e))
      dense == {i \in 1..Len(elements) :
                  Len(caps(elements[i])) > 1 /\ Len(group(elements[i])) > 1}
      pick(e) == LET sorted_elements == StableSort(group(e), YXLess)
                     sorted_captions == StableSort(caps(e), NumberLess)
                     i == CHOOSE k \in 1..Len(sorted_elements) :
                             sorted_elements[k].element_id = e.element_id
                 IN sorted_captions[Min2(i, Len(sorted_captions))]
  IN [id \in {elements[i].element_id : i \in dense} |->
        pick(CHOOSE e \in Range(elements) : e.element_id = id)]

\* variant: among captions of equal score the last of the list is taken
BestCaption_last(element, real_captions, max_distance) ==
  LET cand == {k \in 1..Len(real_captions) :
                 /\ real_captions[k].element_type = element.element_type
                 /\ real_captions[k].page_number = element.page_number
                 /\ real_captions[k].parsed_number # None
                 /\ calculate_distance(element.bounding_box,
                                       real_captions[k].bounding_box) < max_distance}
      best == CHOOSE k \in cand :
                \A j \in cand :
                   \/ Score(element, real_captions[k]) < Score(element, real_captions[j])
                   \/ /\ Score(element, real_captions[k]) = Score(element, real_captions[j])
                      /\ k >= j
  IN IF cand = {} THEN << >> ELSE <<real_captions[best]>>

\* step 2: the best real caption of one element, as a sequence of 0 or 1
BestCaption(element, real_captions, max_distance) ==
  LET cand == {k \in 1..Len(real_captions) :
                 /\ real_captions[k].element_type = element.element_type
                 /\ real_captions[k].page_number = element.page_number
                 /\ real_captions[k].parsed_number # None
                 /\ calculate_distance(element.bounding_box,
                                       real_captions[k].bounding_box) < max_distance}
      best == CHOOSE k \in cand :
                \A j \in cand :
                   \/ Score(element, real_captions[k]) < Score(element, real_captions[j])
                   \/ /\ Score(element, real_captions[k]) = Score(element, real_captions[j])
                      /\ k <= j
  IN IF cand = {} THEN << >> ELSE <<real_captions[best]>>

\* variant: the synthetic captions are candidates of step 2 as well
DistanceMatches_anycaption(elements, captions, max_distance, done) ==
  LET real_captions == captions
      todo == {e \in Range(elements) :
                 /\ e.element_id \notin done
                 /\ BestCaption(e, real_captions, max_distance) # << >>}
  IN [id \in {e.element_id : e \in todo} |->
        BestCaption(CHOOSE e \in todo : e.element_id = id,
                    real_captions, max_distance)[1]]

\* step 2: distance-based matching of the elements step 1 left out
DistanceMatches(elements, captions, max_distance, done) ==
  LET real_captions == SelectIdx(captions, LAMBDA c : ~IsSynthetic(c))
      todo == {e \in Range(elements) :
                 /\ e.element_id \notin done
                 /\ BestCaption(e, real_captions, max_distance) # << >>}
  IN [id \in {e.element_id : e \in todo} |->
        BestCaption(CHOOSE e \in todo : e.element_id = id,
                    real_captions, max_distance)[1]]

\* step 3: synthetic captions for the elements still unassociated
SyntheticMatches(elements, captions, done) ==
  LET synthetic_captions == SelectIdx(captions, IsSynthetic)
      unassociated == SelectIdx(elements, LAMBDA e : e.element_id \notin done)
      page_elements(e) == StableSort(
          SelectIdx(unassociated, LAMBDA o : PageTypeKey(o) = PageTypeKey(e)), YXLess)
      page_synthetic(e) == StableSort(
          SelectIdx(synthetic_captions,
            LAMBDA c : <<c.page_number, c.element_type>> = PageTypeKey(e)), NumberLess)
      at(e) == CHOOSE k \in 1..Len(page_elements(e)) :
                  page_elements(e)[k].element_id = e.element_id
      hit == {e \in Range(unassociated) : at(e) <= Len(page_synthetic(e))}
  IN [id \in {e.element_id : e \in hit} |->
        LET e == CHOOSE o \in hit : o.element_id = id
        IN page_synthetic(e)[at(e)]]

\* CaptionParser.associate_captions_with_elements
associate_captions_with_elements(elements, captions, max_distance) ==
  LET a1 == PositionMatches(elements, captions)
      a2 == a1 @@ DistanceMatches(elements, captions, max_distance, DOMAIN a1)
  IN a2 @@ SyntheticMatches(elements, captions, DOMAIN a2)

max_distance_default == 100

(***************************************************************************)
(* Inputs: configurations, documents, detector outputs                     *)
(***************************************************************************)
\* ExtractionConfig(...) arguments: a base configuration, every change of
\* one argument of it, and two configurations that request two kinds
BaseArgs ==
  [element_types |-> <<FIGURE>>, naming_pattern |-> PatDefault,
   boundary_padding |-> 0, confidence_threshold |-> 5,
   overwrite_existing |-> FALSE, max_pages |-> None]

ConfigArgs ==
  {BaseArgs}
  \cup {[BaseArgs EXCEPT !.element_types = t] :
          t \in {<< >>, <<TABLE>>, <<FIGURE, TABLE>>}}
  \cup {[BaseArgs EXCEPT !.naming_pattern = p] : p \in Patterns}
  \cup {[BaseArgs EXCEPT !.boundary_padding = v] : v \in {-1, 10}}
  \cup {[BaseArgs EXCEPT !.confidence_threshold = v] : v \in {-1, 9, 11}}
  \cup {[BaseArgs EXCEPT !.max_pages = v] : v \in {0, 1}}
  \cup {[BaseArgs EXCEPT !.overwrite_existing = TRUE]}
  \cup {[BaseArgs EXCEPT !.element_types = <<TABLE, EQUATION>>,
                         !.naming_pattern = PatEscapedType,
                         !.overwrite_existing = TRUE]}

PdfStatus == {"valid", "missing", "empty", "notpdf", "corrupt", "encrypted",
              "nopages"}

\* boxes the vision model reports for elements and for captions
BoxA == [x |-> 0, y |-> 0, width |-> 40, height |-> 40]
BoxB == [x |-> 0, y |-> 10, width |-> 40, height |-> 40]
BoxC == [x |-> 0, y |-> 120, width |-> 40, height |-> 40]
DetBoxes == {BoxA, BoxB, BoxC}
CapBoxes == {[x |-> 0, y |-> 45, width |-> 40, height |-> 10]}
Confidences == {5, 9}

\* text layers a page can have
TextFig(n) == <<"Fig", "ure", " ", n, ":", " ", "text">>
PageTexts ==
  { << >>,
    <<Line(0, 45, 40, 10, TextFig("1"))>>,
    <<Line(0, 45, 40, 10, TextFig("3"))>>,
    <<Line(0, 45, 40, 10, TextFig("0"))>>,
    <<Line(0, 30, 40, 10, <<"Fig", ".", " ", "B">>),
      Line(0, 45, 40, 10, <<"text">>)>> }

(***************************************************************************)
(* pdf_processor.py: validate_pdf                                          *)
(***************************************************************************)
\* variant: a corrupted structure passes validation
validate_pdf_lenient(doc) ==
  CASE doc.status = "missing" ->
         [is_valid |-> FALSE, error_message |-> "File not found",
          is_encrypted |-> FALSE]
    [] doc.status = "empty" ->
         [is_valid |-> FALSE, error_message |-> "File is empty",
          is_encrypted |-> FALSE]
    [] doc.status = "encrypted" ->
         [is_valid |-> FALSE,
          error_message |-> "PDF is encrypted/password-protected",
          is_encrypted |-> TRUE]
    [] doc.status = "nopages" ->
         [is_valid |-> FALSE, error_message |-> "PDF has no pages",
          is_encrypted |-> FALSE]
    [] doc.status = "corrupt" ->
         [is_valid |-> TRUE,
          error_message |-> "Corrupted or invalid PDF structure",
          is_encrypted |-> FALSE]
    [] doc.status = "notpdf" ->
         [is_valid |-> FALSE, error_message |-> "File is not a valid PDF",
          is_encrypted |-> FALSE]
    [] doc.status = "valid" ->
         [is_valid |-> TRUE, error_message |-> "", is_encrypted |-> FALSE]

validate_pdf(doc) ==
  CASE doc.status = "missing" ->
         [is_valid |-> FALSE, error_message |-> "File not found",
          is_encrypted |-> FALSE]
    [] doc.status = "empty" ->
         [is_valid |-> FALSE, error_message |-> "File is empty",
          is_encrypted |-> FALSE]
    [] doc.status = "encrypted" ->
         [is_valid |-> FALSE,
          error_message |-> "PDF is encrypted/password-protected",
          is_encrypted |-> TRUE]
    [] doc.status = "nopages" ->
         [is_valid |-> FALSE, error_message |-> "PDF has no pages",
          is_encrypted |-> FALSE]
    [] doc.status = "corrupt" ->
         [is_valid |-> FALSE,
          error_message |-> "Corrupted or invalid PDF structure",
          is_encrypted |-> FALSE]
    [] doc.status = "notpdf" ->
         [is_valid |-> FALSE, error_message |-> "File is not a valid PDF",
          is_encrypted |-> FALSE]
    [] doc.status = "valid" ->
         [is_valid |-> TRUE, error_message |-> "", is_encrypted |-> FALSE]

(***************************************************************************)
(* extractor.py: extract_elements, one action per step                     *)
(***************************************************************************)
NoResult == [returned |-> FALSE, elements |-> << >>, success |-> FALSE,
             warnings |-> << >>]

Init ==
  /\ pc = "Config"
  /\ config \in ConfigArgs
  /\ pdf \in {[status |-> st, page_count |-> IF st = "valid" THEN MaxPages ELSE 0,
               text |-> [p \in 1..MaxPages |-> << >>], read |-> {}] :
            st \in PdfStatus}
  /\ outdir \in {"absent", "uncreatable", "present", "readonly"}
  /\ pages = 0
  /\ cur = 0
  /\ all_elements = << >>
  /\ all_caption_bboxes = << >>
  /\ all_captions = << >>
  /\ caption_associations = << >>
  /\ warnings = << >>
  /\ raised = "none"
  /\ cropped = << >>
  /\ written = {}
  /\ result = NoResult
  /\ next_id = 0
  /\ arg = << >>
  /\ emitted = {}

Raise(exception) ==
  /\ pc' = "Raised"
  /\ raised' = exception

\* ExtractionConfig.__post_init__ accepts the arguments
ConfigOk ==
  /\ pc = "Config"
  /\ PostInit(config) = "ok"
  /\ pc' = "Validate"
  /\ UNCHANGED <<config, pdf, outdir, pages, cur, all_elements,
                 all_caption_bboxes, all_captions, caption_associations,
                 warnings, raised, cropped, written, result, next_id, arg, emitted>>

\* ExtractionConfig.__post_init__ raises ConfigurationError
ConfigRejected ==
  /\ pc = "Config"
  /\ PostInit(config) # "ok"
  /\ Raise("ConfigurationError")
  /\ UNCHANGED <<config, pdf, outdir, pages, cur, all_elements,
                 all_caption_bboxes, all_captions, caption_associations,
                 warnings, cropped, written, result, next_id, arg, emitted>>

\* Step 1: validate_pdf; an invalid file raises InvalidPDFError
Validate ==
  /\ pc = "Validate"
  /\ IF validate_pdf(pdf).is_valid
     THEN pc' = "Load" /\ UNCHANGED raised
     ELSE Raise("InvalidPDFError")
  /\ UNCHANGED <<config, pdf, outdir, pages, cur, all_elements,
                 all_caption_bboxes, all_captions, caption_associations,
                 warnings, cropped, written, result, next_id, arg, emitted>>

\* Step 2: load_document(pdf_path, max_pages)
Load ==
  /\ pc = "Load"
  /\ pages' = IF config.max_pages # None /\ config.max_pages # 0
              THEN Min2(pdf.page_count, config.max_pages)
              ELSE pdf.page_count
  /\ pc' = "OutputDir"
  /\ UNCHANGED <<config, pdf, outdir, cur, all_elements,
                 all_caption_bboxes, all_captions, caption_associations,
                 warnings, raised, cropped, written, result, next_id, arg, emitted>>

\* Step 2, the file can no longer be opened: load_document raises
\* InvalidPDFError (or its subclass CorruptedPDFError)
LoadFails ==
  /\ pc = "Load"
  /\ Raise("InvalidPDFError")
  /\ UNCHANGED <<config, pdf, outdir, pages, cur, all_elements,
                 all_caption_bboxes, all_captions, caption_associations,
                 warnings, cropped, written, result, next_id, arg, emitted>>

\* Step 3: create the output directory and check that it is writable
OutputDir ==
  /\ pc = "OutputDir"
  /\ IF outdir \in {"absent", "present"}
     THEN /\ outdir' = "present"
          /\ pc' = "Detect"
          /\ cur' = [page |-> 1, k |-> 1]
          /\ UNCHANGED raised
     ELSE /\ Raise("ExtractionFailedError")
          /\ UNCHANGED <<outdir, cur>>
  /\ UNCHANGED <<config, pdf, pages, all_elements,
                 all_caption_bboxes, all_captions, caption_associations,
                 warnings, cropped, written, result, next_id, arg, emitted>>

\* the cursor of the loops of step 5 after one detector call
NextCursor ==
  IF cur.k < Len(config.element_types)
  THEN [cur EXCEPT !.k = cur.k + 1]
  ELSE [page |-> cur.page + 1, k |-> 1]

DetectionOpen == pc = "Detect" /\ cur.page <= pages
DetectionType == config.element_types[cur.k]

\* what a detector may report on one page: up to room detections at or
\* above the confidence threshold
Detections(room) ==
  SeqsUpTo({[bbox |-> b, confidence |-> c] :
              b \in DetBoxes, c \in {v \in Confidences : v >= config.confidence_threshold}},
           room)

\* the elements a detector builds from the detections (padding=0,
\* sequence_number=1 and output_filename="" are placeholders)
Detected(dets, element_type, page_number, base) ==
  [i \in 1..Len(dets) |->
     create_element(base + i, element_type,
                    BoundingBox(dets[i].bbox.x, dets[i].bbox.y,
                                dets[i].bbox.width, dets[i].bbox.height,
                                page_number, 0),
                    page_number, 1, dets[i].confidence, << >>)]

\* Step 5, one detector.detect call that returns
Detect ==
  /\ DetectionOpen
  /\ \E dets \in Detections(MaxElems - Len(all_elements)) :
     \E caps \in SeqsUpTo(CapBoxes, MaxCaps - Len(all_caption_bboxes)) :
        /\ DetectionType # FIGURE => caps = << >>
        /\ all_elements' = all_elements
              \o Detected(dets, DetectionType, cur.page, next_id)
        /\ next_id' = next_id + Len(dets)
        /\ emitted' = emitted \cup {dets[i].confidence : i \in 1..Len(dets)}
        /\ all_caption_bboxes' = all_caption_bboxes
              \o [i \in 1..Len(caps) |->
                    [bbox |-> BoundingBox(caps[i].x, caps[i].y, caps[i].width,
                                          caps[i].height, cur.page, 0),
                     element_type |-> FIGURE, page_number |-> cur.page]]
  /\ cur' = NextCursor
  /\ UNCHANGED <<pc, config, pdf, outdir, pages, all_captions,
                 caption_associations, warnings, raised, cropped, written,
                 result, arg>>

\* variant: after a failure the remaining kinds of the page are skipped
DetectFails_skippage ==
  /\ DetectionOpen
  /\ DetectionType # FIGURE
  /\ warnings' = Append(warnings,
        [msg |-> "Detection failed", element_type |-> DetectionType,
         page |-> cur.page])
  /\ cur' = [page |-> cur.page + 1, k |-> 1]
  /\ UNCHANGED <<pc, config, pdf, outdir, pages, all_elements,
                 all_caption_bboxes, all_captions, caption_associations,
                 raised, cropped, written, result, next_id, arg, emitted>>

\* Step 5, a detector.detect call that raises: one warning, no elements.
\* FigureDetector.detect catches its own exceptions and returns [].
DetectFails ==
  /\ DetectionOpen
  /\ DetectionType # FIGURE
  /\ warnings' = Append(warnings,
        [msg |-> "Detection failed", element_type |-> DetectionType,
         page |-> cur.page])
  /\ cur' = NextCursor
  /\ UNCHANGED <<pc, config, pdf, outdir, pages, all_elements,
                 all_caption_bboxes, all_captions, caption_associations,
                 raised, cropped, written, result, next_id, arg, emitted>>

\* variant: the merge may start while pages are still to be detected
DetectDone_early ==
  /\ pc = "Detect"
  /\ pc' = "MergeGeometric"
  /\ cur' = 0
  /\ UNCHANGED <<config, pdf, outdir, pages, all_elements,
                 all_caption_bboxes, all_captions, caption_associations,
                 warnings, raised, cropped, written, result, next_id, arg, emitted>>

\* the loops of step 5 are over
DetectDone ==
  /\ pc = "Detect"
  /\ cur.page > pages
  /\ pc' = "MergeGeometric"
  /\ cur' = 0
  /\ UNCHANGED <<config, pdf, outdir, pages, all_elements,
                 all_caption_bboxes, all_captions, caption_associations,
                 warnings, raised, cropped, written, result, next_id, arg, emitted>>

FigureRequested == FIGURE \in Range(config.element_types)

\* Step 5.5: FigureMerger.merge_elements
MergeGeometric ==
  /\ pc = "MergeGeometric"
  /\ all_elements' = IF FigureRequested /\ Len(all_elements) > 1
                     THEN merge_elements(all_elements)
                     ELSE all_elements
  /\ pc' = "DedupeCrossKind"
  /\ UNCHANGED <<config, pdf, outdir, pages, cur,
                 all_caption_bboxes, all_captions, caption_associations,
                 warnings, raised, cropped, written, result, next_id, arg, emitted>>

\* Step 6: _handle_overlaps when several kinds are requested
DedupeCrossKind ==
  /\ pc = "DedupeCrossKind"
  /\ IF Len(config.element_types) > 1
     THEN /\ all_elements' = handle_overlaps(all_elements).elements
          /\ warnings' = warnings \o handle_overlaps(all_elements).warnings
     ELSE UNCHANGED <<all_elements, warnings>>
  /\ pc' = "ParseCaptions"
  /\ UNCHANGED <<config, pdf, outdir, pages, cur,
                 all_caption_bboxes, all_captions, caption_associations,
                 raised, cropped, written, result, next_id, arg, emitted>>

\* the pages that have caption boxes, in first-seen order
CaptionPages == KeysInOrder(all_caption_bboxes, LAMBDA c : c.page_number)

PageCaptionBoxes(p) == SelectIdx(all_caption_bboxes, LAMBDA c : c.page_number = p)

\* the document after the text layer of the pages in ps has been read:
\* a page read for the first time shows one of the possible text layers
ReadPages(doc, ps) ==
  IF ps \subseteq doc.read THEN {doc}
  ELSE
  {[doc EXCEPT !.text = text, !.read = doc.read \cup ps] :
     text \in {t \in [1..MaxPages -> PageTexts] :
                 \A p \in 1..MaxPages : p \notin (ps \ doc.read) => t[p] = doc.text[p]}}

\* Step 6.5, first half: extract_captions_from_page for every page with
\* caption boxes
ParseCaptions ==
  /\ pc = "ParseCaptions"
  /\ IF all_caption_bboxes = << >>
     THEN /\ pc' = "Sequence"
          /\ UNCHANGED <<pdf, all_captions>>
     ELSE \E doc \in ReadPages(pdf, Range(CaptionPages)) :
          LET text == doc.text IN
            /\ pdf' = doc
            /\ all_captions' = Concat([k \in 1..Len(CaptionPages) |->
                  extract_captions_from_page(text[CaptionPages[k]], CaptionPages[k],
                                             PageCaptionBoxes(CaptionPages[k]))])
            /\ pc' = "FillNumberGaps"
  /\ UNCHANGED <<config, outdir, pages, cur, all_elements,
                 all_caption_bboxes, caption_associations,
                 warnings, raised, cropped, written, result, next_id, arg, emitted>>

\* does the page text contain a caption "Figure n:" (Figure\s+n\s*:)
HasCaptionFormat(text, n) ==
  \E i \in 1..Len(text) :
     /\ text[i] = "Fig"
     /\ i + 2 <= Len(text) /\ text[i + 1] = "ure" /\ IsSpace(text[i + 2])
     /\ LET k == SkipSpaces(text, i + 2)
        IN /\ k <= Len(text) /\ text[k] = Digits(n)[1] /\ Len(Digits(n)) = 1
           /\ LET c == SkipSpaces(text, k + 1)
              IN c <= Len(text) /\ text[c] = ":"

\* variant: the search for missing numbers starts at 1
MissingNumbers_fromone(captions) ==
  LET detected_numbers == {captions[k].parsed_number : k \in
          {j \in 1..Len(captions) : /\ captions[j].element_type = FIGURE
                                    /\ captions[j].parsed_number # None}}
  IN IF detected_numbers = {} THEN << >>
     ELSE SortedSeq({n \in 1..SetMax(detected_numbers) :
                       n \notin detected_numbers})

\* the figure numbers missing between the smallest and the largest parsed
MissingNumbers(captions) ==
  LET detected_numbers == {captions[k].parsed_number : k \in
          {j \in 1..Len(captions) : /\ captions[j].element_type = FIGURE
                                    /\ captions[j].parsed_number # None}}
  IN IF detected_numbers = {} THEN << >>
     ELSE SortedSeq({n \in SetMin(detected_numbers)..SetMax(detected_numbers) :
                       n \notin detected_numbers})

\* the synthetic captions of the gap search, in the order they are appended
SyntheticCaptions(captions, text, loaded_pages) ==
  LET missing_numbers == MissingNumbers(captions)
      where(n) == {p \in 1..loaded_pages : HasCaptionFormat(get_text(text[p]), n)}
      found == SelectIdx(missing_numbers, LAMBDA n : where(n) # {})
  IN [k \in 1..Len(found) |->
        Caption(<<"Fig", "ure", " ">> \o Digits(found[k])
                   \o <<":", " ", "(YOLO missed caption detection)">>,
                BoundingBox(0, 0, 1, 1, SetMin(where(found[k])), 0),
                SetMin(where(found[k])), FIGURE, found[k])]

\* Step 6.5, gap search: synthetic captions for the missing figure numbers
FillNumberGaps ==
  /\ pc = "FillNumberGaps"
  /\ IF all_captions = << >> \/ MissingNumbers(all_captions) = << >>
     THEN UNCHANGED <<pdf, all_captions>>
     ELSE \E doc \in ReadPages(pdf, 1..pages) :
            /\ pdf' = doc
            /\ all_captions' = all_captions
                  \o SyntheticCaptions(all_captions, doc.text, pages)
  /\ pc' = IF all_captions = << >> THEN "Sequence" ELSE "AssociateCaptions"
  /\ UNCHANGED <<config, outdir, pages, cur, all_elements,
                 all_caption_bboxes, caption_associations,
                 warnings, raised, cropped, written, result, next_id, arg, emitted>>

\* Step 6.5, association
AssociateCaptions ==
  /\ pc = "AssociateCaptions"
  /\ caption_associations' =
        associate_captions_with_elements(all_elements, all_captions,
                                         max_distance_default)
  /\ pc' = "MergeSharedCaptions"
  /\ UNCHANGED <<config, pdf, outdir, pages, cur, all_elements,
                 all_caption_bboxes, all_captions,
                 warnings, raised, cropped, written, result, next_id, arg, emitted>>

\* Step 6.5, subfigures: FigureMerger has no attribute
\* merge_by_shared_captions, so the call raises AttributeError, which
\* extract_elements turns into ExtractionFailedError
MergeSharedCaptions ==
  /\ pc = "MergeSharedCaptions"
  /\ IF FigureRequested /\ Len(all_elements) > 1
     THEN Raise("ExtractionFailedError")
     ELSE pc' = "Sequence" /\ UNCHANGED raised
  /\ UNCHANGED <<config, pdf, outdir, pages, cur, all_elements,
                 all_caption_bboxes, all_captions, caption_associations,
                 warnings, cropped, written, result, next_id, arg, emitted>>

Numbered ==
  assign_sequence_numbers_and_filenames(all_elements, config.naming_pattern,
                                        caption_associations, next_id)

\* Step 7: _assign_sequence_numbers_and_filenames; a KeyError or ValueError
\* inside it leaves extract_elements as ExtractionFailedError
Sequence ==
  /\ pc = "Sequence"
  /\ IF Numbered.raised = "none"
     THEN /\ all_elements' = Numbered.elements
          /\ next_id' = next_id + Len(Numbered.elements)
          /\ pc' = "Sort"
          /\ UNCHANGED raised
     ELSE /\ Raise("ExtractionFailedError")
          /\ UNCHANGED <<all_elements, next_id>>
  /\ UNCHANGED <<config, pdf, outdir, pages, cur,
                 all_caption_bboxes, all_captions, caption_associations,
                 warnings, cropped, written, result, arg, emitted>>

\* Step 8: _sort_elements
Sort ==
  /\ pc = "Sort"
  /\ all_elements' = sort_elements(all_elements)
  /\ pc' = "Crop"
  /\ cur' = 1
  /\ UNCHANGED <<config, pdf, outdir, pages,
                 all_caption_bboxes, all_captions, caption_associations,
                 warnings, raised, cropped, written, result, next_id, arg, emitted>>

CropOpen == pc = "Crop" /\ cur <= Len(all_elements)
CropElement == all_elements[cur]

\* crop_element finds the output file and overwrite is false; the file is
\* there when this run wrote it or when it was there before the run
CropFileExists ==
  /\ CropOpen
  /\ ~config.overwrite_existing
  /\ warnings' = Append(warnings, [msg |-> "Skipping existing file",
                                   filename |-> CropElement.output_filename])
  /\ cur' = cur + 1
  /\ UNCHANGED <<pc, config, pdf, outdir, pages, all_elements,
                 all_caption_bboxes, all_captions, caption_associations,
                 raised, cropped, written, result, next_id, arg, emitted>>

\* crop_element may get past the existence check
CropMayProceed ==
  config.overwrite_existing \/ CropElement.output_filename \notin written

\* crop_element returns True: the file is saved
CropSucceeds ==
  /\ CropOpen
  /\ CropMayProceed
  /\ cropped' = Append(cropped, CropElement)
  /\ written' = written \cup {CropElement.output_filename}
  /\ cur' = cur + 1
  /\ UNCHANGED <<pc, config, pdf, outdir, pages, all_elements,
                 all_caption_bboxes, all_captions, caption_associations,
                 warnings, raised, result, next_id, arg, emitted>>

\* crop_element returns False (empty crop rectangle): nothing is saved
CropReturnsFalse ==
  /\ CropOpen
  /\ CropMayProceed
  /\ warnings' = Append(warnings, [msg |-> "Failed to extract",
                                   filename |-> CropElement.output_filename])
  /\ cur' = cur + 1
  /\ UNCHANGED <<pc, config, pdf, outdir, pages, all_elements,
                 all_caption_bboxes, all_captions, caption_associations,
                 raised, cropped, written, result, next_id, arg, emitted>>

\* crop_element raises ExtractionFailedError before the file is saved
CropRaises ==
  /\ CropOpen
  /\ CropMayProceed
  /\ warnings' = Append(warnings, [msg |-> "Failed to extract: error",
                                   filename |-> CropElement.output_filename])
  /\ cur' = cur + 1
  /\ UNCHANGED <<pc, config, pdf, outdir, pages, all_elements,
                 all_caption_bboxes, all_captions, caption_associations,
                 raised, cropped, written, result, next_id, arg, emitted>>

\* Step 10: the ExtractionResult is returned
Result ==
  /\ pc = "Crop"
  /\ cur > Len(all_elements)
  /\ result' = [returned |-> TRUE, elements |-> cropped, success |-> TRUE,
                warnings |-> warnings]
  /\ pc' = "Done"
  /\ UNCHANGED <<config, pdf, outdir, pages, cur, all_elements,
                 all_caption_bboxes, all_captions, caption_associations,
                 warnings, raised, cropped, written, next_id, arg, emitted>>

Next ==
  \/ ConfigOk \/ ConfigRejected
  \/ Validate \/ Load \/ LoadFails \/ OutputDir
  \/ Detect \/ DetectFails \/ DetectDone
  \/ MergeGeometric \/ DedupeCrossKind
  \/ ParseCaptions \/ FillNumberGaps \/ AssociateCaptions \/ MergeSharedCaptions
  \/ Sequence \/ Sort
  \/ CropFileExists \/ CropSucceeds \/ CropReturnsFalse \/ CropRaises
  \/ Result

Spec == Init /\ [][Next]_vars

(***************************************************************************)
(* Specifications of single functions: the arguments are drawn in the      *)
(* initial state (arg), one action applies the function.                   *)
(***************************************************************************)
Idle ==
  /\ config = BaseArgs
  /\ pdf = [status |-> "valid", page_count |-> MaxPages,
            text |-> [p \in 1..MaxPages |-> << >>], read |-> {}]
  /\ outdir = "present"
  /\ pages = 0
  /\ cur = 0
  /\ all_elements = << >>
  /\ all_caption_bboxes = << >>
  /\ all_captions = << >>
  /\ caption_associations = << >>
  /\ warnings = << >>
  /\ raised = "none"
  /\ cropped = << >>
  /\ written = {}
  /\ result = NoResult
  /\ next_id = 0
  /\ emitted = {}

\* elements as the detectors build them, with ids 1..n
MkElements(choices) ==
  [i \in 1..Len(choices) |->
     create_element(i, choices[i].element_type,
                    BoundingBox(choices[i].bbox.x, choices[i].bbox.y,
                                choices[i].bbox.width, choices[i].bbox.height,
                                choices[i].page_number, 0),
                    choices[i].page_number, 1, choices[i].confidence, << >>)]

\* ---- _assign_sequence_numbers_and_filenames ----
Unassociated == -2

AssignChoices ==
  {[element_type |-> t, page_number |-> p, bbox |-> BoxA, confidence |-> 9,
    number |-> n] :
     t \in {FIGURE, TABLE}, p \in 1..MaxPages,
     n \in {Unassociated, None} \cup 0..MaxNum}

\* the association map that gives element i a caption with choices[i].number
MkAssociations(choices) ==
  [id \in {i \in 1..Len(choices) : choices[i].number # Unassociated} |->
     Caption(<<"text">>, BoundingBox(0, 45, 40, 10, choices[id].page_number, 0),
             choices[id].page_number, choices[id].element_type,
             choices[id].number)]

InitAssign ==
  /\ pc = "Call"
  /\ \E choices \in SeqsUpTo(AssignChoices, MaxElems + 1) :
     \E p \in {PatDefault, PatEscapedType} :
        arg = [elements |-> MkElements(choices),
               associations |-> MkAssociations(choices),
               naming_pattern |-> p]
  /\ Idle

CallAssign ==
  /\ pc = "Call"
  /\ LET out == assign_sequence_numbers_and_filenames(
                   arg.elements, arg.naming_pattern, arg.associations,
                   Len(arg.elements))
     IN /\ all_elements' = out.elements
        /\ raised' = out.raised
  /\ pc' = "Return"
  /\ UNCHANGED <<config, pdf, outdir, pages, cur, all_caption_bboxes,
                 all_captions, caption_associations, warnings, cropped,
                 written, result, next_id, arg, emitted>>

NextAssign == CallAssign

SpecAssign == InitAssign /\ [][NextAssign]_vars

\* ---- _handle_overlaps ----
OverlapChoices ==
  {[element_type |-> t, page_number |-> p, bbox |-> b, confidence |-> c] :
     t \in {FIGURE, TABLE}, p \in 1..MaxPages, b \in DetBoxes, c \in Confidences}

InitOverlap ==
  /\ pc = "Call"
  /\ \E choices \in SeqsUpTo(OverlapChoices, MaxElems + 1) :
        arg = [elements |-> MkElements(choices)]
  /\ Idle

CallOverlap ==
  /\ pc = "Call"
  /\ all_elements' = handle_overlaps(arg.elements).elements
  /\ warnings' = handle_overlaps(arg.elements).warnings
  /\ pc' = "Return"
  /\ UNCHANGED <<config, pdf, outdir, pages, cur, all_caption_bboxes,
                 all_captions, caption_associations, raised, cropped,
                 written, result, next_id, arg, emitted>>

NextOverlap == CallOverlap

SpecOverlap == InitOverlap /\ [][NextOverlap]_vars

\* ---- FigureMerger.merge_elements ----
BoxD == [x |-> 0, y |-> 65, width |-> 40, height |-> 40]
BoxE == [x |-> 100, y |-> 50, width |-> 40, height |-> 40]
MergeBoxes == {BoxA, BoxB, BoxD, BoxE}

\* figures of the first and of the last page, tables of the first page
MergeChoices ==
  {[element_type |-> g[1], page_number |-> g[2], bbox |-> b, confidence |-> c] :
     g \in {<<FIGURE, 1>>, <<FIGURE, MaxPages>>, <<TABLE, 1>>},
     b \in MergeBoxes, c \in Confidences}

InitMerge ==
  /\ pc = "Call"
  /\ \E choices \in SeqsUpTo(MergeChoices, MaxElems + 1) :
        arg = [elements |-> MkElements(choices), clusters |-> << >>]
  /\ Idle

\* arg.clusters records the to_merge lists of the call
CallMerge ==
  /\ pc = "Call"
  /\ all_elements' = merge_elements(arg.elements)
  /\ arg' = [arg EXCEPT !.clusters = merge_clusters(arg.elements)]
  /\ pc' = "Return"
  /\ UNCHANGED <<config, pdf, outdir, pages, cur, all_caption_bboxes,
                 all_captions, caption_associations, warnings, raised,
                 cropped, written, result, next_id, emitted>>

NextMerge == CallMerge

SpecMerge == InitMerge /\ [][NextMerge]_vars

\* ---- _calculate_iou, _calculate_min_distance ----
\* valid boxes (width > 0, height > 0) whose coordinates are floats; some
\* sums of a position and a size need one bit more than the significand
GeometryBoxes ==
  {[x |-> x, y |-> y, width |-> w, height |-> h, page_number |-> 1,
    padding |-> 0] :
     x \in {0, Pow2(MantissaBits) - 7}, y \in {0, 3},
     w \in {4, Pow2(MantissaBits) - 6}, h \in {1, 7}}

InitGeometry ==
  /\ pc = "Call"
  /\ \E a \in GeometryBoxes : \E b \in GeometryBoxes :
        arg = [a |-> a, b |-> b, out |-> << >>]
  /\ Idle

CallGeometry ==
  /\ pc = "Call"
  /\ arg' = [arg EXCEPT !.out =
        [iou_ab |-> calculate_iou_float(arg.a, arg.b),
         iou_ba |-> calculate_iou_float(arg.b, arg.a),
         iou_aa |-> calculate_iou_float(arg.a, arg.a),
         dist_ab |-> calculate_min_distance_float(arg.a, arg.b),
         dist_ba |-> calculate_min_distance_float(arg.b, arg.a),
         dist_aa |-> calculate_min_distance_float(arg.a, arg.a)]]
  /\ pc' = "Return"
  /\ UNCHANGED <<config, pdf, outdir, pages, cur, all_elements,
                 all_caption_bboxes, all_captions, caption_associations,
                 warnings, raised, cropped, written, result, next_id, emitted>>

NextGeometry == CallGeometry

SpecGeometry == InitGeometry /\ [][NextGeometry]_vars

\* ---- CaptionParser.associate_captions_with_elements ----
ElemHigh == [x |-> 0, y |-> 60, width |-> 40, height |-> 40]
ElemLow == [x |-> 0, y |-> 200, width |-> 40, height |-> 40]
\* caption boxes: 10 above ElemHigh, 10 below it, 10 below it further to the
\* right, 600 below it, and the unit box of a synthetic caption
CapAbove == [x |-> 0, y |-> 40, width |-> 40, height |-> 10]
CapBelow == [x |-> 0, y |-> 110, width |-> 40, height |-> 10]
CapBelowRight == [x |-> 50, y |-> 110, width |-> 40, height |-> 10]
CapFarBelow == [x |-> 0, y |-> 700, width |-> 40, height |-> 10]
CapUnit == [x |-> 0, y |-> 0, width |-> 1, height |-> 1]
\* a caption box exactly max_distance_default below ElemHigh
CapAtLimit == [x |-> 0, y |-> 200, width |-> 40, height |-> 10]

AssociateElemChoices ==
  {[element_type |-> t, page_number |-> 1, bbox |-> b, confidence |-> 9] :
     t \in {FIGURE, TABLE}, b \in {ElemHigh, ElemLow}}
  \cup {[element_type |-> FIGURE, page_number |-> MaxPages, bbox |-> ElemHigh,
         confidence |-> 9]}

MkCaption(b, page_number, element_type, n) ==
  Caption(<<"text">>, BoundingBox(b.x, b.y, b.width, b.height, page_number, 0),
          page_number, element_type, n)

AssociateCaptionChoices ==
  {MkCaption(b, 1, FIGURE, n) :
     b \in {CapAbove, CapBelow, CapBelowRight, CapFarBelow},
     n \in {None} \cup 1..MaxNum}
  \cup {MkCaption(CapUnit, 1, FIGURE, n) : n \in 1..MaxNum}
  \cup {MkCaption(CapAtLimit, 1, FIGURE, 1)}
  \cup {MkCaption(CapBelow, 1, TABLE, 1), MkCaption(CapBelow, MaxPages, FIGURE, 1)}

max_distance_wide == 1000

InitAssociate ==
  /\ pc = "Call"
  /\ \E choices \in SeqsUpTo(AssociateElemChoices, MaxElems) :
     \E captions \in SeqsUpTo(AssociateCaptionChoices, MaxCaps + 1) :
     \E d \in {max_distance_default, max_distance_wide} :
        arg = [elements |-> MkElements(choices), captions |-> captions,
               max_distance |-> d, scores |-> << >>, again |-> << >>]
  /\ Idle

\* the first run; arg.scores records the score of every element with every
\* caption
CallAssociate ==
  /\ pc = "Call"
  /\ caption_associations' = associate_captions_with_elements(
                                arg.elements, arg.captions, arg.max_distance)
  /\ arg' = [arg EXCEPT !.scores =
       [i \in 1..Len(arg.elements) |->
          [k \in 1..Len(arg.captions) |->
             Score(arg.elements[i], arg.captions[k])]]]
  /\ pc' = "Again"
  /\ UNCHANGED <<config, pdf, outdir, pages, cur, all_elements,
                 all_caption_bboxes, all_captions, warnings, raised, cropped,
                 written, result, next_id, emitted>>

\* the second run on the same arguments
CallAssociateAgain ==
  /\ pc = "Again"
  /\ arg' = [arg EXCEPT !.again = associate_captions_with_elements(
                                   arg.elements, arg.captions, arg.max_distance)]
  /\ pc' = "Return"
  /\ UNCHANGED <<config, pdf, outdir, pages, cur, all_elements,
                 all_caption_bboxes, all_captions, caption_associations,
                 warnings, raised, cropped, written, result, next_id, emitted>>

NextAssociate == CallAssociate \/ CallAssociateAgain

SpecAssociate == InitAssociate /\ [][NextAssociate]_vars

\* ---- CaptionParser._parse_number ----
\* texts: an optional lead-in, a label, optional blank, and what follows
ParseTexts ==
  {lead \o label \o blank \o tail :
     lead \in {<< >>, <<"see", " ">>, <<"3", " ">>},
     label \in {<<"Fig", "ure">>, <<"Fig", ".">>, <<"Fig">>, <<"Table">>,
                <<"Eq", ".">>, <<"text">>},
     blank \in {<< >>, <<" ">>},
     tail \in {<< >>, <<"7">>, <<"7", ":", " ", "text">>, <<"B">>, <<"b">>,
               <<":", " ", "text">>, <<"text">>,
               <<"B", " ", "Fig", ".", " ", "7">>}}

InitParse ==
  /\ pc = "Call"
  /\ Idle
  /\ arg \in {[text |-> t, element_type |-> k, out |-> None] :
                t \in ParseTexts, k \in ElementType}

CallParse ==
  /\ pc = "Call"
  /\ arg' = [arg EXCEPT !.out = parse_number(arg.text, arg.element_type)]
  /\ pc' = "Return"
  /\ UNCHANGED <<config, pdf, outdir, pages, cur, all_elements,
                 all_caption_bboxes, all_captions, caption_associations,
                 warnings, raised, cropped, written, result, next_id, emitted>>

NextParse == CallParse

SpecParse == InitParse /\ [][NextParse]_vars

\* ---- CaptionParser.extract_captions_from_page ----
\* out is the list returned; clean is the list the same call returns when
\* no text extraction fails.
\* three caption boxes far from each other and from the top of the page
CapX == [x |-> 0, y |-> 300, width |-> 40, height |-> 10]
CapY == [x |-> 0, y |-> 500, width |-> 40, height |-> 10]
CapZ == [x |-> 0, y |-> 700, width |-> 40, height |-> 10]
\* a caption box over a part of the page without text
CapBlank == [x |-> 0, y |-> 900, width |-> 40, height |-> 10]
\* a sentence at height y that mentions figure n
MentionLine(n, y) == Line(0, y, 40, 10, <<"see", " ", "Fig", "ure", " ", n>>)
\* the text layers of the page: mentions of figures at the top, a word in
\* CapX and CapY, and a caption text in CapZ
ExtractTexts ==
  {top \o <<Line(0, 300, 40, 10, <<"text">>), Line(0, 500, 40, 10, <<"text">>),
            Line(0, 700, 40, 10, z)>> :
     top \in {<< >>, <<MentionLine("3", 100)>>,
              <<MentionLine("3", 100), MentionLine("1", 150)>>,
              <<MentionLine("1", 100), MentionLine("3", 150)>>},
     z \in {TextFig("1"), <<"Table", " ", "3">>, <<"text">>}}
ExtractBoxChoices ==
  {[bbox |-> BoundingBox(b.x, b.y, b.width, b.height, 1, 0), element_type |-> k] :
     b \in {CapX, CapY, CapZ, CapBlank}, k \in {FIGURE, TABLE}}

InitExtract ==
  /\ pc = "Call"
  /\ Idle
  /\ \E page_lines \in ExtractTexts :
     \E caption_bboxes \in SeqsUpTo(ExtractBoxChoices, MaxCaps + 1) :
     \E fail_at \in {FailNever, FailOpen, FailFullPage} \cup 1..Len(caption_bboxes) :
        arg = [page_lines |-> page_lines, caption_bboxes |-> caption_bboxes,
               fail_at |-> fail_at, out |-> << >>, clean |-> << >>]

CallExtract ==
  /\ pc = "Call"
  /\ arg' = [arg EXCEPT
               !.out = extract_captions_from_page_failing(arg.page_lines, 1,
                          arg.caption_bboxes, arg.fail_at),
               !.clean = extract_captions_from_page_failing(arg.page_lines, 1,
                          arg.caption_bboxes, FailNever)]
  /\ pc' = "Return"
  /\ UNCHANGED <<config, pdf, outdir, pages, cur, all_elements,
                 all_caption_bboxes, all_captions, caption_associations,
                 warnings, raised, cropped, written, result, next_id, emitted>>

NextExtract == CallExtract

SpecExtract == InitExtract /\ [][NextExtract]_vars

\* ---- the caption stages of extract_elements (Step 6.5 and Step 7) ----
\* The states after Step 6 of a document with up to four figures, two per
\* page; figure s has the caption line "Figure s: text" right below it.
GapSlots == 4
SlotPage(s) == IF s <= 2 THEN 1 ELSE 2
SlotBox(s) == IF s % 2 = 1 THEN ElemHigh ELSE ElemLow
SlotCaptionBox(s) ==
  BoundingBox(0, y2(SlotBox(s)) + 5, 40, 10, SlotPage(s), 0)
SlotLine(s) ==
  Line(0, y2(SlotBox(s)) + 5, 40, 10, TextFig(Digits(s)[1]))
\* a sentence that refers to figure s without being its caption
ReferenceLine(s) ==
  Line(0, y2(SlotBox(s)) + 5, 40, 10,
       <<"see", " ", "Fig", "ure", " ", Digits(s)[1]>>)
\* a second caption line "Figure s: text" at the top of a page
ExtraLine(s) == Line(0, 20, 40, 10, TextFig(Digits(s)[1]))

\* the text layers: line3 says what stands below figure 3, extra3 whether
\* page 1 carries "Figure 3: text" as well
GapText(line3, extra3) ==
  [p \in 1..MaxPages |->
     IF p = 1
     THEN (IF extra3 THEN <<ExtraLine(3)>> ELSE << >>)
          \o <<SlotLine(1), SlotLine(2)>>
     ELSE IF p = 2
     THEN (IF line3 = "caption" THEN <<SlotLine(3)>>
           ELSE IF line3 = "reference" THEN <<ReferenceLine(3)>> ELSE << >>)
          \o <<SlotLine(4)>>
     ELSE << >>]

\* the figures the detector found, with ids in detection order
SlotElements(shown) ==
  LET slots == SortedSeq(shown)
  IN [i \in 1..Len(slots) |->
        create_element(i, FIGURE,
                       BoundingBox(SlotBox(slots[i]).x, SlotBox(slots[i]).y,
                                   SlotBox(slots[i]).width,
                                   SlotBox(slots[i]).height,
                                   SlotPage(slots[i]), 0),
                       SlotPage(slots[i]), 1, 9, << >>)]

\* the caption boxes the detector found
SlotCaptionBoxes(boxed) ==
  LET slots == SortedSeq(boxed)
  IN [i \in 1..Len(slots) |->
        [bbox |-> SlotCaptionBox(slots[i]), element_type |-> FIGURE,
         page_number |-> SlotPage(slots[i])]]

InitCaptions ==
  /\ pc = "ParseCaptions"
  /\ config = BaseArgs
  /\ \E line3 \in {"caption", "reference", "none"}, extra3 \in BOOLEAN :
       pdf = [status |-> "valid", page_count |-> MaxPages,
              text |-> GapText(line3, extra3), read |-> 1..MaxPages]
  /\ outdir = "present"
  /\ pages = MaxPages
  /\ cur = 0
  /\ \E shown \in SUBSET (1..GapSlots) :
       /\ all_elements = SlotElements(shown)
       /\ next_id = Cardinality(shown)
       /\ emitted = IF shown = {} THEN {} ELSE {9}
  /\ \E boxed \in SUBSET (1..GapSlots) :
       all_caption_bboxes = SlotCaptionBoxes(boxed)
  /\ all_captions = << >>
  /\ caption_associations = << >>
  /\ warnings = << >>
  /\ raised = "none"
  /\ cropped = << >>
  /\ written = {}
  /\ result = NoResult
  /\ arg = << >>

NextCaptions ==
  \/ ParseCaptions
  \/ FillNumberGaps
  \/ AssociateCaptions
  \/ MergeSharedCaptions
  \/ Sequence

SpecCaptions == InitCaptions /\ [][NextCaptions]_vars


(***************************************************************************)
(* Properties                                                              *)
(***************************************************************************)
\* the pattern substitutes the kind / the counter into the filename
HasTypeField(p) == Format(p, FIGURE, 1) # Format(p, TABLE, 1)
HasCounterField(p) == Format(p, FIGURE, 1) # Format(p, FIGURE, 2)

\* the i-th element of the list among those of its kind (1-based)
RankInKind(elements, i) ==
  Cardinality({j \in 1..i : elements[j].element_type = elements[i].element_type})

IoUHalf(a, b) ==
  /\ a.page_number = b.page_number
  /\ IouAtLeast(calculate_iou(a.bounding_box, b.bounding_box), 5)

C2_SequentialByType ==
  result.returned =>
    \A i \in 1..Len(result.elements) :
       /\ result.elements[i].sequence_number = RankInKind(result.elements, i)
       /\ result.elements[i].output_filename
            = Format(config.naming_pattern, result.elements[i].element_type,
                     RankInKind(result.elements, i))

IsSortedByPosition(elements) ==
  \A i, j \in 1..Len(elements) : i < j => ~PositionLess(elements[j], elements[i])

RECURSIVE IsSubsequence(_, _)
IsSubsequence(s, t) ==
  IF s = << >> THEN TRUE
  ELSE IF t = << >> THEN FALSE
  ELSE IF Head(s) = Head(t) THEN IsSubsequence(Tail(s), Tail(t))
  ELSE IsSubsequence(s, Tail(t))

\* C3: the list handed to cropping and the returned list are ordered by
\* (page_number, y, x) across all kinds, and the returned list is the
\* cropping order without the failed crops
C3_SortedOutput ==
  /\ pc \in {"Crop", "Done"} =>
       /\ IsSortedByPosition(all_elements)
       /\ IsSubsequence(cropped, all_elements)
  /\ result.returned =>
       /\ result.elements = cropped
       /\ IsSortedByPosition(result.elements)
       /\ \A i \in 1..(Len(result.elements) - 1) :
            result.elements[i + 1].page_number >= result.elements[i].page_number

\* two kinds on one page are returned, the table above the figure
C3_Witness ==
  /\ result.returned
  /\ Len(result.elements) = 2
  /\ result.elements[1].element_type = TABLE
  /\ result.elements[2].element_type = FIGURE
  /\ result.elements[1].page_number = result.elements[2].page_number

\* C4: an element is returned exactly when its crop succeeded, every failed
\* crop (False, FileExistsError, any other exception) adds exactly one
\* warning and the run goes on to a result with success=True; the number
\* of returned elements equals the number of files this run wrote
C4_CropFailuresRecoverable ==
  /\ pc \in {"Crop", "Done"} =>
       Len(cropped) + Cardinality({i \in 1..Len(warnings) :
                                     "filename" \in DOMAIN warnings[i]})
         = (IF pc = "Done" THEN Len(all_elements) ELSE cur - 1)
  /\ result.returned => result.success /\ result.elements = cropped
  /\ result.returned => Len(result.elements) = Cardinality(written)

InvalidFile == pdf.status \in {"missing", "empty", "notpdf", "corrupt"}

\* C5: a PDF that fails validation ends the run with InvalidPDFError and
\* no result; no step of such a run creates the output directory, collects
\* detections or writes a file
C5_InvalidPdfFatal ==
  /\ [](InvalidFile /\ pc \notin {"Config", "Validate"}
          => pc = "Raised" /\ raised \in {"ConfigurationError", "InvalidPDFError"})
  /\ [](raised = "InvalidPDFError"
          => /\ pc = "Raised" /\ ~result.returned
             /\ written = {} /\ cropped = << >>
             /\ all_elements = << >> /\ next_id = 0 /\ emitted = {})
  /\ [][InvalidFile \/ raised' = "InvalidPDFError"
          => /\ outdir' = outdir /\ written' = written
             /\ all_elements' = all_elements]_vars

\* a run on a corrupted file with an absent output directory has ended
C5_Witness ==
  /\ pdf.status = "corrupt" /\ outdir = "absent"
  /\ pc = "Raised" /\ raised = "InvalidPDFError"

\* C6: an encrypted PDF ends extract_elements with EncryptedPDFError
C6_EncryptedError ==
  (pdf.status = "encrypted" /\ pc = "Raised" /\ raised # "ConfigurationError")
  => raised = "EncryptedPDFError"

\* C7: a configuration with no kinds, without a {type} or a {counter}
\* placeholder, with negative padding, a threshold outside [0,1] or
\* max_pages < 1 never gets past construction
ConfigWellFormed(c) ==
  /\ c.element_types # << >>
  /\ HasTypeField(c.naming_pattern) /\ HasCounterField(c.naming_pattern)
  /\ c.boundary_padding >= 0
  /\ 0 <= c.confidence_threshold /\ c.confidence_threshold <= 10
  /\ c.max_pages = None \/ c.max_pages >= 1

C7_ConfigRejectedEagerly ==
  ~ConfigWellFormed(config) => pc = "Config" \/ raised = "ConfigurationError"

\* C8: every returned element carries the configured boundary padding
C8_PaddingApplied ==
  result.returned =>
    \A i \in 1..Len(result.elements) :
       result.elements[i].bounding_box.padding = config.boundary_padding

\* C9: at every stage every element has the confidence of some detection,
\* so every returned element is at or above the confidence threshold
C9_ConfidenceKept ==
  /\ \A i \in 1..Len(all_elements) :
       /\ all_elements[i].confidence_score \in emitted
       /\ all_elements[i].confidence_score >= config.confidence_threshold
  /\ result.returned =>
       \A i \in 1..Len(result.elements) :
          /\ result.elements[i].confidence_score \in emitted
          /\ result.elements[i].confidence_score >= config.confidence_threshold

\* a merged element (two detections of different confidence) is returned
C9_Witness ==
  /\ result.returned
  /\ Len(result.elements) = 1
  /\ emitted = {5, 9}
  /\ result.elements[1].bounding_box.height = 50
  /\ result.elements[1].confidence_score = 9

RemovedByOverlap ==
  {e \in Range(arg.elements) :
     \A k \in 1..Len(all_elements) : all_elements[k].element_id # e.element_id}

\* C10: after _handle_overlaps no two kept elements of one page have
\* IoU >= 0.5, every removed element has a kept element on its page with
\* IoU >= 0.5 and at least its confidence, and there is exactly one warning
\* per removed element
C10_CrossKindDedup ==
  pc = "Return" =>
    /\ \A i, j \in 1..Len(all_elements) :
         i # j => ~IoUHalf(all_elements[i], all_elements[j])
    /\ \A e \in RemovedByOverlap :
         \E k \in 1..Len(all_elements) :
            /\ IoUHalf(e, all_elements[k])
            /\ all_elements[k].confidence_score >= e.confidence_score
    /\ Len(warnings) = Cardinality(RemovedByOverlap)
    /\ IsSubsequence(all_elements, StableSort(arg.elements, ConfGreater))

\* a Figure at 0.9 and a Table at 0.5 overlap on page 1 (IoU 0.6) while the
\* same box on page 2 survives: one removal, one warning
C10_Witness ==
  /\ pc = "Return"
  /\ Len(arg.elements) = 3 /\ Len(all_elements) = 2 /\ Len(warnings) = 1
  /\ warnings[1].removed_type = TABLE /\ warnings[1].kept_type = FIGURE
  /\ warnings[1].removed_confidence = 5 /\ warnings[1].kept_confidence = 9
  /\ \E i \in 1..2 : all_elements[i].page_number = 2

BoxContains(outer, inner) ==
  /\ outer.x <= inner.x /\ outer.y <= inner.y
  /\ x2(outer) >= x2(inner) /\ y2(outer) >= y2(inner)

C13_GeometryIdentities ==
  pc = "Return" =>
    /\ arg.out.iou_ab = arg.out.iou_ba
    /\ arg.out.iou_aa = FloatOne
    /\ arg.out.dist_aa = 0
    /\ arg.out.dist_ab = arg.out.dist_ba
    /\ 0 <= arg.out.iou_ab /\ arg.out.iou_ab <= FloatOne

\* caption k of arg.captions is a candidate of element i in the
\* distance-based matching: a real caption of the element's kind and page
\* that has a number
IsCandidate(i, k) ==
  /\ ~(arg.captions[k].bounding_box.width = 1
         /\ arg.captions[k].bounding_box.height = 1)
  /\ arg.captions[k].element_type = arg.elements[i].element_type
  /\ arg.captions[k].page_number = arg.elements[i].page_number
  /\ arg.captions[k].parsed_number # None

\* the vertical gap between element i and caption k (0 when they overlap
\* vertically), and whether the caption starts at or under the element's
\* lower edge
Gap(i, k) ==
  LET e == arg.elements[i].bounding_box
      c == arg.captions[k].bounding_box
  IN IF e.y + e.height <= c.y THEN c.y - (e.y + e.height)
     ELSE IF c.y + c.height <= e.y THEN e.y - (c.y + c.height)
     ELSE 0

IsBelow(i, k) ==
  arg.elements[i].bounding_box.y + arg.elements[i].bounding_box.height
    <= arg.captions[k].bounding_box.y

\* element i is left to the distance-based matching: its page does not have
\* several numbered captions and several elements of its kind
ViaDistance(i) ==
  ~(/\ Cardinality({k \in 1..Len(arg.captions) :
                      /\ arg.captions[k].parsed_number # None
                      /\ arg.captions[k].element_type = arg.elements[i].element_type
                      /\ arg.captions[k].page_number = arg.elements[i].page_number}) > 1
    /\ Cardinality({j \in 1..Len(arg.elements) :
                      /\ arg.elements[j].element_type = arg.elements[i].element_type
                      /\ arg.elements[j].page_number = arg.elements[i].page_number}) > 1)

InReach(i, k) == IsCandidate(i, k) /\ Gap(i, k) < arg.max_distance

ScoresAsStated ==
  \A i \in 1..Len(arg.elements) : \A k \in 1..Len(arg.captions) :
     IsCandidate(i, k) =>
       arg.scores[i][k] = (IF IsBelow(i, k) THEN Gap(i, k) ELSE Gap(i, k) + 500)

\* element i got a caption that lies below it
GotBelow(i) ==
  /\ arg.elements[i].element_id \in DOMAIN caption_associations
  /\ \E k \in 1..Len(arg.captions) :
       /\ InReach(i, k) /\ IsBelow(i, k)
       /\ caption_associations[arg.elements[i].element_id] = arg.captions[k]

\* C17 (as claimed): in the distance-based matching a candidate scores its
\* gap when below the element and gap + 500 otherwise, and an element with
\* a below-positioned candidate within max_distance gets a below-positioned
\* caption, whatever max_distance is
C17_BelowWinsAnyDistance ==
  pc = "Return" =>
    /\ ScoresAsStated
    /\ \A i \in 1..Len(arg.elements) :
         (ViaDistance(i)
            /\ \E k \in 1..Len(arg.captions) : InReach(i, k) /\ IsBelow(i, k))
         => GotBelow(i)

\* C17 (amended): the same, for max_distance up to the penalty of 500
C17_BelowWins ==
  pc = "Return" =>
    /\ ScoresAsStated
    /\ \A i \in 1..Len(arg.elements) :
         (ViaDistance(i) /\ arg.max_distance <= 500
            /\ \E k \in 1..Len(arg.captions) : InReach(i, k) /\ IsBelow(i, k))
         => GotBelow(i)

\* a figure with a caption 10 above it (510) listed first and a caption 10
\* below it (10) gets the one below, max_distance being 100
C17_Witness ==
  /\ pc = "Return" /\ arg.max_distance = 100
  /\ Len(arg.elements) = 1 /\ Len(arg.captions) = 2
  /\ InReach(1, 1) /\ InReach(1, 2)
  /\ ~IsBelow(1, 1) /\ Gap(1, 1) = 10 /\ arg.scores[1][1] = 510
  /\ IsBelow(1, 2) /\ Gap(1, 2) = 10 /\ arg.scores[1][2] = 10
  /\ caption_associations[1] = arg.captions[2]

\* the captions read from detected caption boxes, and those added by the
\* gap search
DetectedCaptions == SelectIdx(all_captions, LAMBDA c : ~IsSynthetic(c))
AddedCaptions == SelectIdx(all_captions, LAMBDA c : IsSynthetic(c))
\* D: the numbers parsed from the detected figure captions
DetectedNumbers ==
  {DetectedCaptions[k].parsed_number : k \in
     {j \in 1..Len(DetectedCaptions) :
        /\ DetectedCaptions[j].element_type = FIGURE
        /\ DetectedCaptions[j].parsed_number # None}}
\* the loaded pages with a line that starts "Figure n:"
CaptionLinePages(n) ==
  {p \in 1..pages :
     \E i \in 1..Len(pdf.text[p]) :
        /\ Len(pdf.text[p][i].tokens) >= 5
        /\ SubSeq(pdf.text[p][i].tokens, 1, 5)
             = <<"Fig", "ure", " ", Digits(n)[1], ":">>}
GapSearchDone == pc \notin {"ParseCaptions", "FillNumberGaps"}

\* C15: after the gap search every synthetic caption is a 1x1 figure caption
\* whose number n lies strictly inside the range of the detected numbers D
\* and is not in D, it sits on the lowest loaded page with a line
\* "Figure n:", there is one per such n and none for any other n.
C15_GapDetection ==
  GapSearchDone =>
    /\ \A k \in 1..Len(AddedCaptions) :
         LET c == AddedCaptions[k]
         IN /\ c.element_type = FIGURE
            /\ c.bounding_box.width = 1 /\ c.bounding_box.height = 1
            /\ DetectedNumbers # {}
            /\ c.parsed_number \in SetMin(DetectedNumbers)..SetMax(DetectedNumbers)
            /\ c.parsed_number \notin DetectedNumbers
            /\ CaptionLinePages(c.parsed_number) # {}
            /\ c.page_number = SetMin(CaptionLinePages(c.parsed_number))
            /\ c.bounding_box.page_number = c.page_number
            /\ \A j \in 1..Len(AddedCaptions) :
                  AddedCaptions[j].parsed_number = c.parsed_number => j = k
    /\ DetectedNumbers # {} =>
         \A n \in SetMin(DetectedNumbers)..SetMax(DetectedNumbers) :
            n \notin DetectedNumbers /\ CaptionLinePages(n) # {}
              => \E k \in 1..Len(AddedCaptions) : AddedCaptions[k].parsed_number = n

\* a gap at 3 whose caption line stands on both pages was filled on page 1,
\* while a number below the detected range has a caption line too
C15_Witness ==
  /\ pc = "AssociateCaptions"
  /\ DetectedNumbers = {2, 4}
  /\ CaptionLinePages(3) = {1, 2}
  /\ CaptionLinePages(1) = {1}
  /\ Len(AddedCaptions) = 1
  /\ AddedCaptions[1].parsed_number = 3 /\ AddedCaptions[1].page_number = 1

\* the figures on page p and the detected captions on page p
FiguresOn(p) ==
  {i \in 1..Len(all_elements) :
     all_elements[i].element_type = FIGURE /\ all_elements[i].page_number = p}
DetectedOn(p) ==
  {k \in 1..Len(DetectedCaptions) : DetectedCaptions[k].page_number = p}
\* captions 1, 2 and 4 were detected, "Figure 3:" stands on page 2 only, and
\* page 2 has a figure more than it has detected captions
GapScenario ==
  /\ DetectedNumbers = {1, 2, 4}
  /\ CaptionLinePages(3) = {2}
  /\ Cardinality(FiguresOn(2)) > Cardinality(DetectedOn(2))
\* the figure of page 2 that stands above the line "Figure 3:"
IsGapFigure(e) ==
  /\ e.page_number = 2
  /\ e.bounding_box.y = ElemHigh.y
\* the synthetic caption 3 on page 2 exists
GapCaptionAdded ==
  \E k \in 1..Len(AddedCaptions) :
     AddedCaptions[k].parsed_number = 3 /\ AddedCaptions[k].page_number = 2
\* ... and is the caption of the figure that had none
GapCaptionAssociated ==
  \E i \in 1..Len(all_elements) :
     /\ IsGapFigure(all_elements[i])
     /\ all_elements[i].element_id \in DOMAIN caption_associations
     /\ IsSynthetic(caption_associations[all_elements[i].element_id])
     /\ caption_associations[all_elements[i].element_id].parsed_number = 3

\* C16: in the gap scenario the gap search adds the synthetic caption 3 on
\* page 2, the association gives it to the figure without a caption, and
\* the run goes on to number the figures 1, 2, 3, 4.
C16_GapFillEndToEnd ==
  GapScenario =>
    /\ GapSearchDone => GapCaptionAdded
    /\ pc \notin {"ParseCaptions", "FillNumberGaps", "AssociateCaptions"}
         => /\ raised = "none"
            /\ pc = "Sort" =>
                 /\ {all_elements[i].sequence_number : i \in 1..Len(all_elements)}
                      = {1, 2, 3, 4}
                 /\ \A i \in 1..Len(all_elements) :
                       IsGapFigure(all_elements[i])
                         => all_elements[i].sequence_number = 3
    /\ pc = "MergeSharedCaptions" => GapCaptionAssociated

\* the tokens that begin with an upper-case letter
UpperTokens == {"A", "B", "Fig", "Table", "Eq"}
\* the tokens that follow a label of the kind (after optional blanks), in
\* text order
AfterLabels(text, element_type) ==
  LET at(i) == {text[SkipSpaces(text, LabelEnds(text, i, element_type)[e])] :
                  e \in {d \in 1..Len(LabelEnds(text, i, element_type)) :
                           SkipSpaces(text, LabelEnds(text, i, element_type)[d])
                             <= Len(text)}}
  IN [i \in 1..Len(text) |-> at(i)]
DigitsAfterLabel(text, element_type) ==
  {i \in 1..Len(text) : AfterLabels(text, element_type)[i] \cap DigitRuns # {}}
UpperAfterLabel(text, element_type) ==
  {i \in 1..Len(text) : AfterLabels(text, element_type)[i] \cap UpperTokens # {}}

\* C18: _parse_number returns the digits after the leftmost label that has
\* digits after it; failing that, for a kind with a letter pattern, the
\* ordinal of the upper-case letter after the leftmost label that has one;
\* and None for a text in which no label is followed by digits or by an
\* upper-case letter. 'Figure 7: text' gives 7 and 'Fig. B' gives 2.
C18_ParsePolicy ==
  pc = "Return" =>
    LET text == arg.text
        element_type == arg.element_type
        digits == DigitsAfterLabel(text, element_type)
        upper == UpperAfterLabel(text, element_type)
    IN /\ digits # {} =>
            arg.out \in {IntOf(t) : t \in AfterLabels(text, element_type)[SetMin(digits)]
                                             \cap DigitRuns}
       /\ digits = {} /\ upper # {} /\ element_type # EQUATION =>
            arg.out \in {LetterOrd(t) : t \in AfterLabels(text, element_type)[SetMin(upper)]
                                                \cap UpperTokens}
       /\ digits = {} /\ upper = {} => arg.out = None
       /\ text = TextFig("7") /\ element_type = FIGURE => arg.out = 7
       /\ text = <<"Fig", ".", " ", "B">> /\ element_type = FIGURE => arg.out = 2

\* the returned captions whose own text carries no number of their kind:
\* the ones the page-wide fallback may number
Unparsed(out) ==
  {k \in 1..Len(out) : parse_number(out[k].text, out[k].element_type) = None}
\* the numbers claimed when the fallback reaches caption k: those parsed
\* from caption texts and those the fallback gave to earlier captions
ClaimedBefore(out, k) ==
  ({out[j].parsed_number : j \in (1..Len(out)) \ Unparsed(out)}
     \cup {out[j].parsed_number : j \in {i \in Unparsed(out) : i < k}}) \ {None}
\* the numbers that follow a label of the kind in the page text, in text
\* order
PageNumbersOf(element_type) ==
  LET text == get_text(arg.page_lines)
      hits == SelectIdx([i \in 1..Len(text) |-> i],
                        LAMBDA i : MatchAt(text, i, element_type, 1) # "")
  IN [k \in 1..Len(hits) |-> IntOf(MatchAt(text, hits[k], element_type, 1))]
PageNumbers == PageNumbersOf(FIGURE)
\* the positions in nums of the numbers still free for caption k
FreeFor(out, k, nums) ==
  {i \in 1..Len(nums) : nums[i] \notin ClaimedBefore(out, k)}
ExtractReturned == pc = "Return" /\ arg.fail_at = FailNever
\* a number given by the fallback is the number of no other caption
FallbackNumbersUnshared(out) ==
  \A k \in Unparsed(out) : out[k].parsed_number # None =>
     \A j \in 1..Len(out) : j # k => out[j].parsed_number # out[k].parsed_number

\* C19, as claimed: every caption without a parsed number gets, in caption
\* order, the lowest unclaimed number that the page text has for its kind,
\* or stays unnumbered when every found number is claimed.
C19_FallbackLowest ==
  ExtractReturned =>
    LET out == arg.out
    IN /\ \A k \in Unparsed(out) :
            LET nums == PageNumbersOf(out[k].element_type)
            IN out[k].parsed_number =
                 IF FreeFor(out, k, nums) = {} THEN None
                 ELSE SetMin({nums[i] : i \in FreeFor(out, k, nums)})
       /\ FallbackNumbersUnshared(out)

\* C19, amended: every FIGURE caption without a parsed number gets, in
\* caption order, the unclaimed number that comes first in the page text,
\* or stays unnumbered when every found number is claimed; a caption of
\* another kind stays unnumbered; a fallback number is shared with no
\* other caption of the page.
C19_FallbackFirstFound ==
  ExtractReturned =>
    LET out == arg.out
    IN /\ \A k \in Unparsed(out) :
            out[k].parsed_number =
              IF out[k].element_type # FIGURE \/ FreeFor(out, k, PageNumbers) = {}
              THEN None
              ELSE PageNumbers[SetMin(FreeFor(out, k, PageNumbers))]
       /\ \A k \in (1..Len(out)) \ Unparsed(out) :
            out[k].parsed_number = parse_number(out[k].text, out[k].element_type)
       /\ FallbackNumbersUnshared(out)

\* two figure captions without a number took 3 and 1, in text order, and a
\* run where the only found number was claimed left a caption unnumbered
C19_Witness ==
  /\ ExtractReturned
  /\ Len(arg.out) = 2
  /\ PageNumbers = <<3, 1>>
  /\ Unparsed(arg.out) = {1, 2}
  /\ arg.out[1].parsed_number = 3
  /\ arg.out[2].parsed_number = 1

\* the boxes before position k that have text inside
BoxesWithText(k) ==
  {j \in 1..(k - 1) :
     Strip(get_text_clip(arg.page_lines, arg.caption_bboxes[j].bbox.x,
                         arg.caption_bboxes[j].bbox.y,
                         x2(arg.caption_bboxes[j].bbox),
                         y2(arg.caption_bboxes[j].bbox))) # << >>}
\* the full-page search runs: a figure caption came out of the boxes
\* without a number
FallbackRuns ==
  \E j \in 1..Len(arg.clean) :
     /\ arg.clean[j].element_type = FIGURE
     /\ j \in Unparsed(arg.clean)
\* a text extraction raised during the call
ExtractionFailed ==
  \/ arg.fail_at = FailOpen
  \/ arg.fail_at \in 1..Len(arg.caption_bboxes)
  \/ arg.fail_at = FailFullPage /\ FallbackRuns
\* the captions completed before the failure
CompletedBefore ==
  IF arg.fail_at = FailOpen THEN 0
  ELSE IF arg.fail_at = FailFullPage THEN Len(arg.clean)
  ELSE Cardinality(BoxesWithText(arg.fail_at))

\* C20, as claimed: when a text extraction raises, wherever it does, the
\* call raises nothing and returns no caption.
C20_FailureYieldsNothing ==
  pc = "Return" /\ ExtractionFailed => raised = "none" /\ arg.out = << >>

\* C20, amended: when a text extraction raises, the call raises nothing and
\* returns the captions of the boxes read before the failure, with the
\* numbers parsed from their own text and no fallback number; that is no
\* caption when the failure is in opening the document or in the first
\* box with text.
C20_FailureKeepsEarlier ==
  pc = "Return" /\ ExtractionFailed =>
    /\ raised = "none"
    /\ arg.out = [j \in 1..CompletedBefore |->
                    [arg.clean[j] EXCEPT !.parsed_number =
                       parse_number(arg.clean[j].text, arg.clean[j].element_type)]]
    /\ arg.fail_at = FailOpen => arg.out = << >>

\* reading the second box failed after the caption of the first had been
\* built with the number of its own text
C20_Witness ==
  /\ pc = "Return"
  /\ arg.fail_at = 2
  /\ Len(arg.out) = 1 /\ Len(arg.clean) = 2
  /\ arg.out[1].parsed_number = 1

\* the merge test of _should_merge between two elements
MeetsMergeTest(a, b) ==
  \/ IouAtLeast(calculate_iou(a.bounding_box, b.bounding_box), overlap_threshold)
  \/ calculate_min_distance(a.bounding_box, b.bounding_box) <= proximity_threshold
\* the ids of the members of cluster k, and of the clusters built before it
ClusterIds(k) ==
  {arg.clusters[k][m].element_id : m \in 1..Len(arg.clusters[k])}
ConsumedBefore(k) == UNION {ClusterIds(j) : j \in 1..(k - 1)}
\* the input elements of the group of e that are not consumed before
\* cluster k
Remaining(k, e) ==
  {i \in 1..Len(arg.elements) :
     /\ PageTypeKey(arg.elements[i]) = PageTypeKey(e)
     /\ arg.elements[i].element_id \notin ConsumedBefore(k)}

\* C29: the clusters of _merge_group partition the input; the anchor of a
\* cluster (its first member) has the highest confidence among the
\* elements of its group not consumed before, and the cluster holds the
\* anchor and exactly those not yet consumed elements of the group that
\* pass the merge test against the anchor itself.
C29_GreedyAnchored ==
  pc = "Return" =>
    /\ \A i \in 1..Len(arg.elements) :
         Cardinality({k \in 1..Len(arg.clusters) :
                        arg.elements[i].element_id \in ClusterIds(k)}) = 1
    /\ \A k \in 1..Len(arg.clusters) :
         LET anchor == arg.clusters[k][1]
         IN /\ Cardinality(ClusterIds(k)) = Len(arg.clusters[k])
            /\ \A m \in 1..Len(arg.clusters[k]) :
                 arg.clusters[k][m] \in Range(arg.elements)
            /\ \A i \in Remaining(k, anchor) :
                 arg.elements[i].confidence_score <= anchor.confidence_score
            /\ ClusterIds(k) =
                 {anchor.element_id} \cup
                 {arg.elements[i].element_id : i \in
                    {r \in Remaining(k, anchor) :
                       /\ arg.elements[r].element_id # anchor.element_id
                       /\ MeetsMergeTest(anchor, arg.elements[r])}}

\* an anchor absorbed one element and left out another that passes the
\* merge test against the absorbed one but not against the anchor
C29_Witness ==
  /\ pc = "Return"
  /\ \E k \in 1..Len(arg.clusters) :
       /\ Len(arg.clusters[k]) = 2
       /\ \E i \in Remaining(k + 1, arg.clusters[k][1]) :
            /\ MeetsMergeTest(arg.clusters[k][2], arg.elements[i])
            /\ ~MeetsMergeTest(arg.clusters[k][1], arg.elements[i])

\* the (page, kind) pairs present in a list of elements
GroupKeys(elements) == {PageTypeKey(elements[i]) : i \in 1..Len(elements)}
\* the input elements of one (page, kind) group
GroupOf(key) ==
  {i \in 1..Len(arg.elements) : PageTypeKey(arg.elements[i]) = key}

\* C30: merge_elements merges only elements of one page and one kind: the
\* (page, kind) pairs of the output are those of the input, each output
\* element has the page and kind of every member of its cluster, and a
\* group of one element comes back as that very element.
C30_GroupIsolation ==
  pc = "Return" =>
    /\ GroupKeys(all_elements) = GroupKeys(arg.elements)
    /\ Len(arg.clusters) = Len(all_elements)
    /\ \A k \in 1..Len(arg.clusters) :
         \A m \in 1..Len(arg.clusters[k]) :
            /\ PageTypeKey(arg.clusters[k][m]) = PageTypeKey(all_elements[k])
            /\ arg.clusters[k][m].bounding_box.page_number
                 = all_elements[k].bounding_box.page_number
    /\ \A key \in GroupKeys(arg.elements) :
         /\ Cardinality({k \in 1..Len(all_elements) :
                           PageTypeKey(all_elements[k]) = key})
              <= Cardinality(GroupOf(key))
         /\ Cardinality(GroupOf(key)) = 1 =>
              \A i \in GroupOf(key) :
                 Cardinality({k \in 1..Len(all_elements) :
                                all_elements[k] = arg.elements[i]}) = 1

\* two elements of one group were merged while a third element, alone in
\* its group and with a box that passes the merge test against both, came
\* back unchanged
C30_Witness ==
  /\ pc = "Return"
  /\ Len(arg.elements) = 3 /\ Len(all_elements) = 2
  /\ \E i \in 1..3 :
       /\ Cardinality(GroupOf(PageTypeKey(arg.elements[i]))) = 1
       /\ arg.elements[i] \in Range(all_elements)
       /\ \A j \in 1..3 : j # i => MeetsMergeTest(arg.elements[i], arg.elements[j])

(***************************************************************************)
(* Position-based matching: associate_captions_with_elements on groups of  *)
(* up to MaxElems + 1 elements, so that a group can hold more elements     *)
(* than captions.                                                          *)
(***************************************************************************)
\* an element beside ElemHigh, at the same height
ElemBeside == [x |-> 50, y |-> 60, width |-> 40, height |-> 40]

PositionElemChoices ==
  {[element_type |-> FIGURE, page_number |-> 1, bbox |-> b, confidence |-> 9] :
     b \in {ElemHigh, ElemBeside, ElemLow}}
  \cup {[element_type |-> TABLE, page_number |-> 1, bbox |-> ElemHigh,
         confidence |-> 9]}

PositionCaptionChoices ==
  {MkCaption(b, 1, FIGURE, n) : b \in {CapBelow, CapUnit}, n \in 1..MaxNum}
  \cup {MkCaption(CapBelow, 1, FIGURE, None), MkCaption(CapBelow, 1, TABLE, 1)}

InitPosition ==
  /\ pc = "Call"
  /\ \E choices \in SeqsUpTo(PositionElemChoices, MaxElems + 1) :
     \E captions \in SeqsUpTo(PositionCaptionChoices, MaxCaps + 1) :
        arg = [elements |-> MkElements(choices), captions |-> captions,
               max_distance |-> max_distance_default, scores |-> << >>,
               again |-> << >>]
  /\ Idle

SpecPosition == InitPosition /\ [][NextAssociate]_vars

\* the captions with a parsed number of element i's kind and page
NumberedOf(i) ==
  {k \in 1..Len(arg.captions) :
     /\ arg.captions[k].parsed_number # None
     /\ arg.captions[k].element_type = arg.elements[i].element_type
     /\ arg.captions[k].page_number = arg.elements[i].page_number}

\* how many elements of its group precede element i in (y, x) order
ElemRank(i) ==
  Cardinality({j \in 1..Len(arg.elements) :
     /\ PageTypeKey(arg.elements[j]) = PageTypeKey(arg.elements[i])
     /\ \/ YXLess(arg.elements[j], arg.elements[i])
        \/ ~YXLess(arg.elements[i], arg.elements[j]) /\ j < i})

\* how many numbered captions of element i's group precede caption k in
\* ascending order of number
CapRank(i, k) ==
  Cardinality({j \in NumberedOf(i) :
     \/ arg.captions[j].parsed_number < arg.captions[k].parsed_number
     \/ arg.captions[j].parsed_number = arg.captions[k].parsed_number /\ j < k})

\* C27: in a (page, kind) group with more than one element and more than
\* one numbered caption, the i-th element in (y, x) order is associated
\* with the caption at index min(i, count - 1) in ascending order of
\* number, and the map the function returns still holds that assignment
C27_PositionMatching ==
  pc = "Return" =>
    \A i \in 1..Len(arg.elements) :
       ~ViaDistance(i) =>
         /\ arg.elements[i].element_id \in DOMAIN caption_associations
         /\ \E k \in NumberedOf(i) :
              /\ CapRank(i, k) = Min2(ElemRank(i), Cardinality(NumberedOf(i)) - 1)
              /\ caption_associations[arg.elements[i].element_id] = arg.captions[k]

\* three figures share two captions listed in descending order of number:
\* the last two figures both hold the last caption, and the first figure
\* holds a caption other than the real caption within reach below it
C27_Witness ==
  /\ pc = "Return"
  /\ Len(arg.elements) = 3 /\ Len(arg.captions) = 2
  /\ \A i \in 1..3 : ~ViaDistance(i)
  /\ arg.captions[1].parsed_number > arg.captions[2].parsed_number
  /\ \E i, j \in 1..3 :
       /\ ElemRank(i) = 1 /\ ElemRank(j) = 2
       /\ caption_associations[arg.elements[i].element_id] = arg.captions[1]
       /\ caption_associations[arg.elements[j].element_id] = arg.captions[1]
  /\ \E i \in 1..3 :
       /\ ElemRank(i) = 0
       /\ InReach(i, 1) /\ IsBelow(i, 1)
       /\ caption_associations[arg.elements[i].element_id] = arg.captions[2]

\* element i holds a real caption in the returned map
HoldsReal(i) ==
  /\ arg.elements[i].element_id \in DOMAIN caption_associations
  /\ ~IsSynthetic(caption_associations[arg.elements[i].element_id])

\* C28: an element left to the distance-based matching holds a real
\* caption only if that caption is of its kind and page, carries a parsed
\* number and lies at a distance strictly below max_distance, and then no
\* such caption scores lower; an element without such a caption gets
\* nothing from the distance-based matching (it stays unassociated or
\* holds a synthetic caption of the later step)
C28_CandidateFilter ==
  pc = "Return" =>
    \A i \in 1..Len(arg.elements) :
       ViaDistance(i) =>
         /\ HoldsReal(i) =>
              \E k \in 1..Len(arg.captions) :
                 /\ caption_associations[arg.elements[i].element_id] = arg.captions[k]
                 /\ IsCandidate(i, k)
                 /\ Gap(i, k) < arg.max_distance
                 /\ \A j \in 1..Len(arg.captions) :
                      InReach(i, j) => arg.scores[i][k] <= arg.scores[i][j]
         /\ (\E k \in 1..Len(arg.captions) : InReach(i, k)) => HoldsReal(i)
         /\ (\A k \in 1..Len(arg.captions) : ~InReach(i, k)) => ~HoldsReal(i)

\* a figure whose only numbered caption lies exactly max_distance below it
\* stays unassociated, while the other figure of the page, which that
\* caption touches, holds it
C28_Witness ==
  /\ pc = "Return"
  /\ Len(arg.elements) = 2
  /\ \E i, j \in 1..2 : \E k \in 1..Len(arg.captions) :
       /\ ViaDistance(i) /\ ViaDistance(j)
       /\ IsCandidate(i, k) /\ Gap(i, k) = arg.max_distance
       /\ arg.elements[i].element_id \notin DOMAIN caption_associations
       /\ InReach(j, k)
       /\ HoldsReal(j)
       /\ caption_associations[arg.elements[j].element_id] = arg.captions[k]

\* what the numbering must leave untouched on an element
Identity(e) ==
  <<e.element_type, e.page_number, e.bounding_box, e.confidence_score>>

\* C26: _assign_sequence_numbers_and_filenames returns as many elements as
\* it received, and every input element's kind, page, box and confidence
\* is on exactly one output element, also when elements of one kind hold
\* captions with the same parsed number
C26_NoDropNoDuplicate ==
  (pc = "Return" /\ raised = "none") =>
    /\ Len(all_elements) = Len(arg.elements)
    /\ \A i \in 1..Len(arg.elements) :
         Cardinality({k \in 1..Len(all_elements) :
                        Identity(all_elements[k]) = Identity(arg.elements[i])})
           = Cardinality({j \in 1..Len(arg.elements) :
                            Identity(arg.elements[j]) = Identity(arg.elements[i])})

\* the caption number the association map gives input element i, or None
CaptionNumber(i) ==
  IF arg.elements[i].element_id \in DOMAIN arg.associations
  THEN arg.associations[arg.elements[i].element_id].parsed_number
  ELSE None

\* the caption numbers held by the elements of input element i's kind
KindNumbers(i) ==
  {CaptionNumber(j) : j \in {j \in 1..Len(arg.elements) :
      arg.elements[j].element_type = arg.elements[i].element_type}} \ {None}

\* how many elements of input i's kind that are numbered the same way
\* (by caption, or by counting) precede it in (page, y, x) order
ReadingRank(i) ==
  Cardinality({j \in 1..Len(arg.elements) :
     /\ arg.elements[j].element_type = arg.elements[i].element_type
     /\ (CaptionNumber(j) = None) = (CaptionNumber(i) = None)
     /\ \/ PositionLess(arg.elements[j], arg.elements[i])
        \/ ~PositionLess(arg.elements[i], arg.elements[j]) /\ j < i})

\* the sequence number the rule gives input element i
RuleNumber(i) ==
  IF CaptionNumber(i) # None THEN CaptionNumber(i)
  ELSE IF KindNumbers(i) # {} THEN SetMax(KindNumbers(i)) + 1 + ReadingRank(i)
  ELSE 1 + ReadingRank(i)

\* the outputs that carry input element i numbered and named by the rule
RuleOutputs(i) ==
  {k \in 1..Len(all_elements) :
     /\ Identity(all_elements[k]) = Identity(arg.elements[i])
     /\ all_elements[k].sequence_number = RuleNumber(i)
     /\ all_elements[k].output_filename =
          Format(arg.naming_pattern, arg.elements[i].element_type, RuleNumber(i))}

\* C25: an element whose caption has the parsed number n gets
\* sequence_number n; the other elements of its kind get consecutive
\* numbers from max(caption numbers) + 1 in (page, y, x) order, or 1..N in
\* that order when the kind has no caption number; the filename is the
\* pattern formatted with the kind and the assigned number
C25_NumberingRule ==
  (pc = "Return" /\ raised = "none") =>
    \A i \in 1..Len(arg.elements) :
       Cardinality(RuleOutputs(i))
         >= Cardinality({j \in 1..Len(arg.elements) :
                           /\ Identity(arg.elements[j]) = Identity(arg.elements[i])
                           /\ RuleNumber(j) = RuleNumber(i)})

\* the warnings of failed detector calls, as indexes into warnings
DetectionWarnings ==
  {k \in 1..Len(warnings) : warnings[k].msg = "Detection failed"}

\* a step of the detection loop that appends a warning
DetectionFailureStep == pc = "Detect" /\ Len(warnings') > Len(warnings)

\* C23: a detector call that raises for one (page, kind) appends exactly
\* one warning naming that kind and page, adds no element, leaves the
\* elements and caption boxes collected so far as they are, does not end
\* the run, and moves on to the next kind or page in order; until the
\* merge starts, no element of a failed (page, kind) is in the list and no
\* (page, kind) has two such warnings
C23_DetectionFailureRecoverable ==
  /\ [][DetectionFailureStep =>
          /\ warnings' = Append(warnings,
                [msg |-> "Detection failed",
                 element_type |-> config.element_types[cur.k],
                 page |-> cur.page])
          /\ all_elements' = all_elements
          /\ all_caption_bboxes' = all_caption_bboxes
          /\ raised' = raised /\ pc' = "Detect"
          /\ cur' = IF cur.k < Len(config.element_types)
                    THEN [page |-> cur.page, k |-> cur.k + 1]
                    ELSE [page |-> cur.page + 1, k |-> 1]]_vars
  /\ [](pc \in {"Detect", "MergeGeometric"} =>
          /\ \A k \in DetectionWarnings : \A i \in 1..Len(all_elements) :
                ~(/\ all_elements[i].element_type = warnings[k].element_type
                  /\ all_elements[i].page_number = warnings[k].page)
          /\ \A k, j \in DetectionWarnings :
                (/\ warnings[k].element_type = warnings[j].element_type
                 /\ warnings[k].page = warnings[j].page) => k = j)

\* detection is over: one kind failed on the first page, after an element
\* of an earlier kind was collected there, and an element of the next
\* page was collected after the failure
C23_Witness ==
  /\ pc = "MergeGeometric"
  /\ Cardinality(DetectionWarnings) = 1
  /\ \E k \in DetectionWarnings : \E i, j \in 1..Len(all_elements) :
     \E a, b \in 1..Len(config.element_types) :
       /\ warnings[k].page = 1
       /\ a < b
       /\ config.element_types[b] = warnings[k].element_type
       /\ all_elements[i].element_type = config.element_types[a]
       /\ all_elements[i].page_number = 1
       /\ all_elements[j].page_number = 2

\* the stages of one run in the order of the statements of
\* extract_elements; pc names the stage that runs next
StageOrder ==
  <<"Config", "Validate", "Load", "OutputDir", "Detect", "MergeGeometric",
    "DedupeCrossKind", "ParseCaptions", "FillNumberGaps", "AssociateCaptions",
    "MergeSharedCaptions", "Sequence", "Sort", "Crop", "Done">>

StageRank(stage) == CHOOSE k \in 1..Len(StageOrder) : StageOrder[k] = stage

\* the list handed to cropping is numbered, named and in reading order
NumberedAndSorted ==
  /\ \A i \in 1..Len(all_elements) :
        /\ all_elements[i].output_filename # << >>
        /\ all_elements[i].sequence_number >= 1
  /\ \A i, j \in 1..Len(all_elements) :
        i < j => ~PositionLess(all_elements[j], all_elements[i])

\* C24: a run moves through its stages only forward in the order
\* Validate, Load, Detect, MergeGeometric, DedupeCrossKind, ParseCaptions,
\* FillNumberGaps, AssociateCaptions, MergeSharedCaptions, Sequence, Sort,
\* Crop, Result, so no stage runs twice; detection is left only for the
\* geometric merge and only after the last page and kind; cross-kind dedup
\* is entered only from the geometric merge; an element is cropped only
\* in the crop stage, when the list is numbered and sorted
C24_StageOrder ==
  [][/\ (pc' # pc /\ pc' # "Raised") => StageRank(pc') > StageRank(pc)
     /\ (pc = "Detect" /\ pc' # "Detect") =>
           (cur.page > pages /\ pc' = "MergeGeometric")
     /\ (pc' = "DedupeCrossKind" /\ pc' # pc) => pc = "MergeGeometric"
     /\ (pc' = "Crop" /\ pc' # pc) => pc = "Sort"
     /\ (pc' = "Sort" /\ pc' # pc) => pc = "Sequence"
     /\ (cropped' # cropped) => (pc = "Crop" /\ pc' = "Crop" /\ NumberedAndSorted)
     /\ (result' # result) => (pc = "Crop" /\ pc' = "Done")]_vars

\* a run over two kinds that parsed a caption, associated it and ended
\* with a returned result holding a cropped element
C24_Witness ==
  /\ pc = "Done"
  /\ result.returned
  /\ Len(config.element_types) > 1
  /\ all_captions # << >>
  /\ DOMAIN caption_associations # {}
  /\ Len(cropped) >= 1

\* the stages that follow validation, loading and the output directory
\* check
ProcessingStages ==
  {"Detect", "MergeGeometric", "DedupeCrossKind", "ParseCaptions",
   "FillNumberGaps", "AssociateCaptions", "MergeSharedCaptions", "Sequence",
   "Sort", "Crop"}

\* C22: once the document is validated and loaded, no step of detection,
\* merging, dedup, caption parsing, association, shared-caption merge,
\* numbering, sorting or cropping ends the run with an exception; a result
\* is returned only with success and the elements that were cropped
C22_OnlyLoadAborts ==
  /\ [][(pc \in ProcessingStages)
          => (pc' # "Raised" /\ raised' = raised)]_vars
  /\ [](result.returned => (pc = "Done" /\ result.success /\ raised = "none"))

\* some caption is the caption of two elements of the list
SharedCaption ==
  \E i, j \in 1..Len(all_elements) :
     /\ i # j
     /\ all_elements[i].element_id \in DOMAIN caption_associations
     /\ all_elements[j].element_id \in DOMAIN caption_associations
     /\ caption_associations[all_elements[i].element_id]
          = caption_associations[all_elements[j].element_id]

\* the elements that hold caption c before the shared-caption merge
Sharers(c) ==
  {i \in 1..Len(all_elements) :
     /\ all_elements[i].element_id \in DOMAIN caption_associations
     /\ caption_associations[all_elements[i].element_id] = c}

\* the captions held by more than one element
SharedCaptions ==
  {c \in Range(all_captions) : Cardinality(Sharers(c)) > 1}

\* element m is the union of the elements S: their minimum enclosing
\* rectangle with their maximum confidence, on their page and of their kind
IsUnionOf(m, S) ==
  /\ m.bounding_box.x = SetMin({all_elements[i].bounding_box.x : i \in S})
  /\ m.bounding_box.y = SetMin({all_elements[i].bounding_box.y : i \in S})
  /\ x2(m.bounding_box) = SetMax({x2(all_elements[i].bounding_box) : i \in S})
  /\ y2(m.bounding_box) = SetMax({y2(all_elements[i].bounding_box) : i \in S})
  /\ m.confidence_score = SetMax({all_elements[i].confidence_score : i \in S})
  /\ \A i \in S : /\ m.page_number = all_elements[i].page_number
                  /\ m.element_type = all_elements[i].element_type

\* C21: the step that follows the association leaves a list in which no
\* caption is held by two elements: the elements that held one caption
\* are replaced by one element, their minimum enclosing rectangle with
\* their maximum confidence, and the map gives that element the caption
C21_SharedCaptionsMerged ==
  [][(pc = "MergeSharedCaptions") =>
       /\ \A i, j \in 1..Len(all_elements') :
            (/\ i # j
             /\ all_elements'[i].element_id \in DOMAIN caption_associations'
             /\ all_elements'[j].element_id \in DOMAIN caption_associations')
            => caption_associations'[all_elements'[i].element_id]
                 # caption_associations'[all_elements'[j].element_id]
       /\ \A c \in SharedCaptions :
            \E k \in 1..Len(all_elements') :
               /\ IsUnionOf(all_elements'[k], Sharers(c))
               /\ all_elements'[k].element_id \in DOMAIN caption_associations'
               /\ caption_associations'[all_elements'[k].element_id] = c]_vars

====
